---- MODULE Spec2Model ----
(***************************************************************************)
(* A state-machine model of the matching and scoring core of the ITMO      *)
(* admission bot: QAProcessor (TF-IDF question matching over the qa_pairs  *)
(* table), DatabaseManager (the qa_pairs / courses tables) and             *)
(* CourseRecommender (interest-to-course scoring).                         *)
(*                                                                         *)
(* Conventions.  Python str values are TLA+ strings.  The Russian words of *)
(* the source are written one Latin letter per Cyrillic letter, so len()   *)
(* of a word is the length of the original.  Python floats are fixed-point *)
(* integers: similarities and scores are in thousandths (0.5 is 500).      *)
(***************************************************************************)
EXTENDS Integers, Sequences, FiniteSets, TLC

VARIABLES
    nltk_ok,   \* whether QAProcessor._init_nltk found its NLTK data
    store,     \* rows of the qa_pairs table, in rowid order
    procs,     \* the QAProcessor instances that share the store
    last,      \* the last public call and what it returned
    rpc,       \* position of the thread running _reload_data on ConcProc
    qpc,       \* position of the thread running get_answer on ConcProc
    qtmp,      \* locals of the running get_answer
    old_index, \* history: ConcProc as it was before the running _reload_data
    courses,   \* rows of the courses table, in rowid order
    rec,       \* the last CourseRecommender call: its arguments and result
    gpt,       \* BotHandler: ENABLE_GPT_MODE and the API keys of the environment
    programs,  \* rows of the programs table, its AUTOINCREMENT counter, the
               \* foreign_keys setting of the SQLite build
    users,     \* rows of the users table and its AUTOINCREMENT counter
    user_states, \* BotHandler.user_states: the dialogue a user is in
    saved      \* rows of the course_recommendations table

vars == <<nltk_ok, store, procs, last, rpc, qpc, qtmp, old_index, courses, rec, gpt, programs, users, user_states, saved>>

-----------------------------------------------------------------------------
(* Bounds of the model *)

\* rows the qa_pairs table may hold
MaxStore == 2

\* questions of a corpus drawn as the input of one query
MaxCorpus == 2

\* rows the table may hold while a writing and a reading thread run
MaxConcRows == 2

\* rows of a courses table drawn as the catalog of one call
MaxCatalog == 2

\* largest top_k drawn as the input of one query
MaxTopK == 2

\* ids the AUTOINCREMENT counter of the programs table may issue
MaxPrograms == 3

\* rows the course_recommendations table may hold
MaxSaved == 2

-----------------------------------------------------------------------------
(* Python values *)

\* Python's None where a str is expected
None == "<None>"

Min(a, b) == IF a < b THEN a ELSE b

RECURSIVE SumSet(_, _)
\* the sum of f[x] over the finite set S
SumSet(f, S) ==
    IF S = {} THEN 0
    ELSE LET x == CHOOSE y \in S : TRUE IN f[x] + SumSet(f, S \ {x})

RECURSIVE ISqrtIter(_, _, _)
ISqrtIter(n, lo, hi) ==
    IF lo >= hi THEN lo
    ELSE LET mid == (lo + hi + 1) \div 2 IN
         IF mid * mid <= n THEN ISqrtIter(n, mid, hi) ELSE ISqrtIter(n, lo, mid - 1)

\* floor of the square root
ISqrt(n) == ISqrtIter(n, 0, Min(n, 46340))

\* str.lower() on the letters of the model's texts
LowerMap ==
    [A |-> "a", B |-> "b", C |-> "c", D |-> "d", E |-> "e", F |-> "f", G |-> "g",
     H |-> "h", I |-> "i", J |-> "j", K |-> "k", L |-> "l", M |-> "m", N |-> "n",
     O |-> "o", P |-> "p", Q |-> "q", R |-> "r", S |-> "s", T |-> "t", U |-> "u",
     V |-> "v", W |-> "w", X |-> "x", Y |-> "y", Z |-> "z"]

\* the characters \w of the re module matches
WordChars ==
    DOMAIN LowerMap \cup {LowerMap[c] : c \in DOMAIN LowerMap}
    \cup {"0", "1", "2", "3", "4", "5", "6", "7", "8", "9", "_"}

CharAt(s, i) == SubSeq(s, i, i)

\* str.lower() of one character
LowerChar(c) == IF c \in DOMAIN LowerMap THEN LowerMap[c] ELSE c

RECURSIVE StrLower(_)
\* str.lower()
StrLower(s) ==
    IF s = "" THEN "" ELSE LowerChar(CharAt(s, 1)) \o StrLower(SubSeq(s, 2, Len(s)))

\* Python's `k in s` for two str
Contains(s, k) ==
    \E i \in 1..(Len(s) - Len(k) + 1) : SubSeq(s, i, i + Len(k) - 1) = k

\* str.startswith and str.endswith
StartsWith(s, prefix) == Len(prefix) <= Len(s) /\ SubSeq(s, 1, Len(prefix)) = prefix

EndsWith(s, suffix) ==
    Len(suffix) <= Len(s) /\ SubSeq(s, Len(s) - Len(suffix) + 1, Len(s)) = suffix

IsWordChar(c) == c \in WordChars

RECURSIVE StripNonWord(_)
\* re.sub(r'[^\w\s]', ' ', text)
StripNonWord(s) ==
    IF s = "" THEN ""
    ELSE LET c == CharAt(s, 1) IN
         (IF IsWordChar(c) \/ c = " " THEN c ELSE " ") \o StripNonWord(SubSeq(s, 2, Len(s)))

RECURSIVE SplitIter(_, _, _)
SplitIter(s, cur, acc) ==
    IF s = "" THEN (IF cur = "" THEN acc ELSE Append(acc, cur))
    ELSE LET c == CharAt(s, 1)
             r == SubSeq(s, 2, Len(s))
         IN IF c = " "
            THEN SplitIter(r, "", IF cur = "" THEN acc ELSE Append(acc, cur))
            ELSE SplitIter(r, cur \o c, acc)

\* str.split(): the whitespace-separated words (collapsing and stripping blanks)
StrSplit(s) == SplitIter(s, "", <<>>)

RECURSIVE StrJoin(_)
\* ' '.join(words)
StrJoin(words) ==
    IF words = <<>> THEN ""
    ELSE IF Len(words) = 1 THEN words[1]
    ELSE words[1] \o " " \o StrJoin(Tail(words))

\* str.upper() of one letter
UpperChar(c) ==
    IF \E u \in DOMAIN LowerMap : LowerMap[u] = c
    THEN CHOOSE u \in DOMAIN LowerMap : LowerMap[u] = c
    ELSE c

IsLetter(c) == c \in DOMAIN LowerMap \/ \E u \in DOMAIN LowerMap : LowerMap[u] = c

RECURSIVE TitleIter(_, _)
TitleIter(s, after_letter) ==
    IF s = "" THEN ""
    ELSE LET c == CharAt(s, 1)
         IN (IF ~IsLetter(c) THEN c
             ELSE IF after_letter THEN LowerChar(c) ELSE UpperChar(c))
            \o TitleIter(SubSeq(s, 2, Len(s)), IsLetter(c))

\* str.title()
StrTitle(s) == TitleIter(s, FALSE)

\* the printable characters of the model's texts in code-point order
CodePoints ==
    " -.0123456789ABCDEFGHIJKLMNOPQRSTUVWXYZ_abcdefghijklmnopqrstuvwxyz"

\* the rank of a character in code-point order
Ord(c) == CHOOSE i \in 1..Len(CodePoints) : CharAt(CodePoints, i) = c

RECURSIVE StrLess(_, _)
\* Python's a < b for two str
StrLess(a, b) ==
    IF b = "" THEN FALSE
    ELSE IF a = "" THEN TRUE
    ELSE IF CharAt(a, 1) = CharAt(b, 1)
    THEN StrLess(SubSeq(a, 2, Len(a)), SubSeq(b, 2, Len(b)))
    ELSE Ord(CharAt(a, 1)) < Ord(CharAt(b, 1))

RECURSIVE JoinWith(_, _)
\* sep.join(words)
JoinWith(sep, words) ==
    IF words = <<>> THEN ""
    ELSE IF Len(words) = 1 THEN words[1]
    ELSE words[1] \o sep \o JoinWith(sep, Tail(words))

\* Python's seq[:k]
Take(seq, k) ==
    IF k >= 0 THEN SubSeq(seq, 1, Min(k, Len(seq)))
    ELSE SubSeq(seq, 1, IF Len(seq) + k > 0 THEN Len(seq) + k ELSE 0)

\* the reasons calculate_course_score and the recommendations give
NoInterests == "Net informacii ob interesah poljzovatela"
GeneralReason == "Obsie rekomendacii"
GeneralRecommendation == "Obsaa rekomendacia programmy"

-----------------------------------------------------------------------------
(* QAProcessor: text normalisation (src/src/nlp/qa_processor.py) *)

\* self.stop_words after _init_nltk: the words added in the source and the
\* NLTK Russian list, as far as the words of the model go; empty in the fallback
stop_words(ok) ==
    IF ok
    THEN {"eto", "bytj", "mocj", "vesj", "svoy", "kotoryy", "takoy", "toljko", "odin",
          "vrema", "god", "celovek", "skazatj", "kak", "cto", "gde", "dla"}
    ELSE {}

\* SnowballStemmer('russian').stem on the words of the model; a word without
\* a Russian ending is left as it is
stem(token) ==
    CASE token = "kursy" -> "kurs"
      [] token = "kursa" -> "kurs"
      [] token = "cena" -> "cen"
      [] token = "ceny" -> "cen"
      [] token = "programma" -> "programm"
      [] token = "programmy" -> "programm"
      [] token = "obucenie" -> "obucen"
      [] token = "obucen" -> "obuc"
      [] OTHER -> token

\* QAProcessor._preprocess_text
preprocess_text(text, ok) ==
    IF text = None \/ text = "" THEN ""
    ELSE LET tokens == StrSplit(StripNonWord(StrLower(text)))
             kept == SelectSeq(tokens, LAMBDA t : t \notin stop_words(ok) /\ Len(t) > 2)
         IN StrJoin([i \in 1..Len(kept) |-> IF ok THEN stem(kept[i]) ELSE kept[i]])

\* QAProcessor._extract_keywords: the distinct words longer than 3 characters
\* (at most 10 of them; the texts of the model have fewer)
extract_keywords(text, ok) ==
    LET words == StrSplit(preprocess_text(text, ok))
    IN {words[i] : i \in {j \in 1..Len(words) : Len(words[j]) > 3}}

-----------------------------------------------------------------------------
(* TfidfVectorizer(max_features=1000, ngram_range=(1, 2)) and cosine_similarity *)

\* the analyzer: lowercase, tokens of two or more word characters
Tokenize(doc) == SelectSeq(StrSplit(StrLower(doc)), LAMBDA t : Len(t) >= 2)

\* the unigrams followed by the bigrams of a token list
Ngrams(t) == t \o [i \in 1..(Len(t) - 1) |-> t[i] \o " " \o t[i + 1]]

\* the unigrams and bigrams of a document
Features(doc) ==
    LET g == Ngrams(Tokenize(doc))
    IN {g[i] : i \in 1..Len(g)}

\* term frequency of a feature among the n-grams of a document
TermCount(f, ngrams) == Cardinality({i \in 1..Len(ngrams) : ngrams[i] = f})

\* 10 * ln(k), rounded
Ln10(k) ==
    CASE k = 1 -> 0 [] k = 2 -> 7 [] k = 3 -> 11 [] k = 4 -> 14
      [] k = 5 -> 16 [] k = 6 -> 18 [] k = 7 -> 19 [] OTHER -> 21

\* smooth idf in tenths: ln((1 + n) / (1 + df)) + 1
Idf(n, df) == 10 + Ln10(1 + n) - Ln10(1 + df)

\* a row without columns
EmptyRow == [f \in {} |-> 0]

\* a vectorizer that was never fit
Unfitted == [fitted |-> FALSE, vocabulary |-> {}, idf |-> EmptyRow]

\* the vocabulary of a corpus (max_features is far above the model's corpora)
Vocabulary(docs) == UNION {Features(docs[i]) : i \in 1..Len(docs)}

\* TfidfVectorizer.fit: vocabulary and idf of the corpus
FitVectorizer(docs) ==
    LET feats == [i \in 1..Len(docs) |-> Features(docs[i])]
        V == UNION {feats[i] : i \in 1..Len(docs)}
        df(f) == Cardinality({i \in 1..Len(docs) : f \in feats[i]})
    IN [fitted |-> TRUE, vocabulary |-> V, idf |-> [f \in V |-> Idf(Len(docs), df(f))]]

\* the tf-idf row of a document (the l2 norm is applied in Cosine)
TfidfRow(vectorizer, doc) ==
    LET g == Ngrams(Tokenize(doc))
    IN [f \in vectorizer.vocabulary |-> TermCount(f, g) * vectorizer.idf[f]]

\* TfidfVectorizer.transform([doc]): raises NotFittedError before fit
transform(vectorizer, doc) ==
    IF ~vectorizer.fitted
    THEN [raised |-> TRUE, row |-> EmptyRow]
    ELSE [raised |-> FALSE, row |-> TfidfRow(vectorizer, doc)]

\* cosine of two rows over the same columns, in thousandths
Cosine(u, v) ==
    LET D == DOMAIN u
        dot == SumSet([f \in D |-> u[f] * v[f]], D)
        nu == SumSet([f \in D |-> u[f] * u[f]], D)
        nv == SumSet([f \in D |-> v[f] * v[f]], D)
    IN IF nu = 0 \/ nv = 0 THEN 0
       ELSE Min(1000, (1000 * dot) \div ISqrt(nu * nv))

\* cosine_similarity(user_vector, question_vectors)[0]: raises ValueError when
\* the two matrices differ in their number of columns
cosine_similarity(u, rows) ==
    IF \E i \in 1..Len(rows) : Cardinality(DOMAIN rows[i]) # Cardinality(DOMAIN u)
    THEN [raised |-> TRUE, sims |-> <<>>]
    ELSE [raised |-> FALSE, sims |-> [i \in 1..Len(rows) |-> Cosine(u, rows[i])]]

\* np.argmax: the first index of the largest value
argmax(sims) ==
    CHOOSE i \in 1..Len(sims) :
        /\ \A j \in 1..Len(sims) : sims[j] <= sims[i]
        /\ \A j \in 1..(i - 1) : sims[j] < sims[i]

-----------------------------------------------------------------------------
(* Thresholds (src/config.py), in thousandths *)

SIMILARITY_THRESHOLD == 700
MIN_RELEVANCE_SCORE == 500

\* the bound of is_exact_match in get_answer
EXACT_MATCH_ABOVE == 900

-----------------------------------------------------------------------------
(* DatabaseManager: the qa_pairs table (src/src/database/db_manager.py) *)

\* DatabaseManager.insert_qa_pair: question and answer are NOT NULL columns,
\* so a None raises sqlite3.IntegrityError and nothing is stored
insert_qa_pair(rows, question, answer, category, keywords) ==
    IF question = None \/ answer = None
    THEN [raised |-> TRUE, rows |-> rows]
    ELSE [raised |-> FALSE,
          rows |-> Append(rows, [id |-> Len(rows) + 1, question |-> question,
                                 answer |-> answer, category |-> category,
                                 keywords |-> keywords])]

\* DatabaseManager.get_all_qa_pairs: every row, in rowid order
get_all_qa_pairs(rows) == rows

-----------------------------------------------------------------------------
(* QAProcessor: the index and the queries *)

\* self.question_vectors: None, or the matrix with one row per question
NoVectors == [kind |-> "none", rows |-> <<>>]
Matrix(rows) == [kind |-> "matrix", rows |-> rows]

\* QAProcessor._fit_vectorizer: fit_transform raises ValueError on an empty
\* vocabulary before it changes the vectorizer; the method then returns None
fit_vectorizer(vectorizer, docs) ==
    IF Vocabulary(docs) = {}
    THEN [vectorizer |-> vectorizer, vectors |-> NoVectors]
    ELSE LET vz == FitVectorizer(docs)
         IN [vectorizer |-> vz,
             vectors |-> Matrix([i \in 1..Len(docs) |-> TfidfRow(vz, docs[i])])]

\* the questions of the rows, preprocessed
ProcessedQuestions(rows, ok) ==
    [i \in 1..Len(rows) |-> preprocess_text(rows[i].question, ok)]

\* a constructor that forgets the else branch: question_vectors is never
\* assigned over an empty corpus
QAProcessor_init_no_else(rows, ok) ==
    LET pq == ProcessedQuestions(rows, ok)
        fit == fit_vectorizer(Unfitted, pq)
    IN [qa_pairs |-> rows, processed_questions |-> pq,
        vectorizer |-> fit.vectorizer,
        question_vectors |-> IF pq # <<>> THEN fit.vectors
                             ELSE [kind |-> "unset", rows |-> <<>>]]

\* QAProcessor.__init__ over the rows the store holds (self.questions and
\* self.answers are columns of qa_pairs)
QAProcessor_init(rows, ok) ==
    LET pq == ProcessedQuestions(rows, ok)
        fit == fit_vectorizer(Unfitted, pq)
    IN [qa_pairs |-> rows, processed_questions |-> pq,
        vectorizer |-> IF pq # <<>> THEN fit.vectorizer ELSE Unfitted,
        question_vectors |-> IF pq # <<>> THEN fit.vectors ELSE NoVectors]

\* _reload_data that reloads the rows and forgets to fit the vectorizer again
reload_data_no_refit(p, rows, ok) ==
    [qa_pairs |-> rows, processed_questions |-> ProcessedQuestions(rows, ok),
     vectorizer |-> p.vectorizer, question_vectors |-> p.question_vectors]

\* QAProcessor._reload_data
reload_data(p, rows, ok) ==
    LET pq == ProcessedQuestions(rows, ok)
        fit == fit_vectorizer(p.vectorizer, pq)
    IN [qa_pairs |-> rows, processed_questions |-> pq,
        vectorizer |-> IF pq # <<>> THEN fit.vectorizer ELSE p.vectorizer,
        question_vectors |-> IF pq # <<>> THEN fit.vectors ELSE p.question_vectors]

\* a row that stands for "no row"
NoQA == [id |-> 0, question |-> None, answer |-> None, category |-> None, keywords |-> {}]

\* what find_similar_question returns: (Optional[Dict], float), or an exception
Found(qa, similarity) == [raised |-> FALSE, found |-> TRUE, qa |-> qa, similarity |-> similarity]
NotFound(similarity) == [raised |-> FALSE, found |-> FALSE, qa |-> NoQA, similarity |-> similarity]
Raised == [raised |-> TRUE, found |-> FALSE, qa |-> NoQA, similarity |-> 0]

\* the similarities of a text to the rows of the index, as the body of the two
\* try blocks computes them
Similarities(p, text, ok) ==
    LET t == transform(p.vectorizer, preprocess_text(text, ok))
    IN IF t.raised THEN [raised |-> TRUE, sims |-> <<>>]
       ELSE cosine_similarity(t.row, p.question_vectors.rows)

\* the body without the test of MIN_RELEVANCE_SCORE: the best row whatever
\* its similarity
similar_question_body_any(p, text, ok) ==
    LET c == Similarities(p, text, ok)
    IN IF c.raised THEN Raised
       ELSE LET best_match_idx == argmax(c.sims)
            IN IF best_match_idx > Len(p.qa_pairs) THEN Raised
               ELSE Found(p.qa_pairs[best_match_idx], c.sims[best_match_idx])

\* the body of the try block of find_similar_question
similar_question_body(p, text, ok) ==
    LET c == Similarities(p, text, ok)
    IN IF c.raised THEN Raised
       ELSE LET best_match_idx == argmax(c.sims)
                best_similarity == c.sims[best_match_idx]
            IN IF best_similarity >= MIN_RELEVANCE_SCORE
               THEN (IF best_match_idx > Len(p.qa_pairs) THEN Raised
                     ELSE Found(p.qa_pairs[best_match_idx], best_similarity))
               ELSE NotFound(best_similarity)

\* a try block whose except clause is missing
try_without_except(r) == r

\* the except clause of find_similar_question: log and return (None, 0.0)
try_except(r) == IF r.raised THEN NotFound(0) ELSE r

\* QAProcessor.find_similar_question; reading an attribute that was never
\* assigned raises AttributeError outside the try block
find_similar_question(p, text, ok) ==
    IF p.question_vectors.kind = "unset" THEN Raised
    ELSE IF p.question_vectors.kind = "none" THEN NotFound(0)
    ELSE try_except(similar_question_body(p, text, ok))

\* the fixed answer of get_answer when nothing matches
CouldNotFind ==
    "K sozaleniu, a ne mogu nayti otvet na vas vopros. Poprobuyte pereformulirovat vopros ili obratites k administratoru programmy."

\* the line get_answer puts before a weak match
PossiblyMeant(question) == "Vozmozno, vy imeli v vidu: '" \o question \o "'?\n\n"

NO_MATCH ==
    [raised |-> FALSE, answer |-> CouldNotFind, confidence |-> 0,
     matched_question |-> None, category |-> "unknown", is_exact_match |-> FALSE]

RaisedAnswer ==
    [raised |-> TRUE, answer |-> None, confidence |-> 0,
     matched_question |-> None, category |-> None, is_exact_match |-> FALSE]

\* get_answer reporting the similarity it was given when nothing matched
AnswerOf_confidence_kept(r) ==
    IF r.raised THEN RaisedAnswer
    ELSE IF r.found /\ r.similarity >= SIMILARITY_THRESHOLD
    THEN [raised |-> FALSE, answer |-> r.qa.answer, confidence |-> r.similarity,
          matched_question |-> r.qa.question, category |-> r.qa.category,
          is_exact_match |-> r.similarity > EXACT_MATCH_ABOVE]
    ELSE IF r.found
    THEN [raised |-> FALSE, answer |-> PossiblyMeant(r.qa.question) \o r.qa.answer,
          confidence |-> r.similarity, matched_question |-> r.qa.question,
          category |-> r.qa.category, is_exact_match |-> FALSE]
    ELSE [NO_MATCH EXCEPT !.confidence = r.similarity]

\* get_answer without the "possibly you meant" line of a weak match
AnswerOf_weak_verbatim(r) ==
    IF r.raised THEN RaisedAnswer
    ELSE IF r.found
    THEN [raised |-> FALSE, answer |-> r.qa.answer, confidence |-> r.similarity,
          matched_question |-> r.qa.question, category |-> r.qa.category,
          is_exact_match |-> r.similarity > EXACT_MATCH_ABOVE]
    ELSE NO_MATCH

\* the three branches of get_answer on what find_similar_question returned
AnswerOf(r) ==
    IF r.raised THEN RaisedAnswer
    ELSE IF r.found /\ r.similarity >= SIMILARITY_THRESHOLD
    THEN [raised |-> FALSE, answer |-> r.qa.answer, confidence |-> r.similarity,
          matched_question |-> r.qa.question, category |-> r.qa.category,
          is_exact_match |-> r.similarity > EXACT_MATCH_ABOVE]
    ELSE IF r.found
    THEN [raised |-> FALSE, answer |-> PossiblyMeant(r.qa.question) \o r.qa.answer,
          confidence |-> r.similarity, matched_question |-> r.qa.question,
          category |-> r.qa.category, is_exact_match |-> FALSE]
    ELSE NO_MATCH

\* QAProcessor.get_answer
get_answer(p, text, ok) == AnswerOf(find_similar_question(p, text, ok))

RECURSIVE ArgsortAsc(_, _)
\* np.argsort(similarities) without the reversal: ascending
ArgsortAsc(sims, S) ==
    IF S = {} THEN <<>>
    ELSE LET i == CHOOSE k \in S : \A j \in S :
                      sims[k] < sims[j] \/ (sims[j] = sims[k] /\ k <= j)
         IN <<i>> \o ArgsortAsc(sims, S \ {i})

RECURSIVE ArgsortDesc(_, _)
\* np.argsort(similarities)[::-1] over the indices in S: descending, and among
\* equal values the later index first (the reverse of the ascending order)
ArgsortDesc(sims, S) ==
    IF S = {} THEN <<>>
    ELSE LET i == CHOOSE k \in S : \A j \in S :
                      sims[j] < sims[k] \/ (sims[j] = sims[k] /\ j <= k)
         IN <<i>> \o ArgsortDesc(sims, S \ {i})

\* get_related_questions without the test of MIN_RELEVANCE_SCORE in its loop
get_related_questions_unfiltered(p, text, top_k, ok) ==
    IF p.question_vectors.kind = "unset" THEN [raised |-> TRUE, related |-> <<>>]
    ELSE IF p.question_vectors.kind = "none" THEN [raised |-> FALSE, related |-> <<>>]
    ELSE LET c == Similarities(p, text, ok)
         IN IF c.raised THEN [raised |-> FALSE, related |-> <<>>]
            ELSE LET order == ArgsortDesc(c.sims, 1..Len(c.sims))
                     kept == SubSeq(order, 1, Min(top_k, Len(order)))
                 IN IF \E k \in 1..Len(kept) : kept[k] > Len(p.qa_pairs)
                    THEN [raised |-> FALSE, related |-> <<>>]
                    ELSE [raised |-> FALSE,
                          related |-> [k \in 1..Len(kept) |->
                              [question |-> p.qa_pairs[kept[k]].question,
                               answer |-> p.qa_pairs[kept[k]].answer,
                               similarity |-> c.sims[kept[k]],
                               category |-> p.qa_pairs[kept[k]].category]]]

\* QAProcessor.get_related_questions
get_related_questions(p, text, top_k, ok) ==
    IF p.question_vectors.kind = "unset" THEN [raised |-> TRUE, related |-> <<>>]
    ELSE IF p.question_vectors.kind = "none" THEN [raised |-> FALSE, related |-> <<>>]
    ELSE LET c == Similarities(p, text, ok)
         IN IF c.raised THEN [raised |-> FALSE, related |-> <<>>]
            ELSE LET order == ArgsortDesc(c.sims, 1..Len(c.sims))
                     top_indices == SubSeq(order, 1, Min(top_k, Len(order)))
                     kept == SelectSeq(top_indices,
                                       LAMBDA idx : c.sims[idx] >= MIN_RELEVANCE_SCORE)
                 IN IF \E k \in 1..Len(kept) : kept[k] > Len(p.qa_pairs)
                    THEN [raised |-> FALSE, related |-> <<>>]
                    ELSE [raised |-> FALSE,
                          related |-> [k \in 1..Len(kept) |->
                              [question |-> p.qa_pairs[kept[k]].question,
                               answer |-> p.qa_pairs[kept[k]].answer,
                               similarity |-> c.sims[kept[k]],
                               category |-> p.qa_pairs[kept[k]].category]]]

\* QAProcessor.add_qa_pair: the store and the processor after the call, and
\* the value returned
add_qa_pair(p, rows, question, answer, category, ok) ==
    LET ins == insert_qa_pair(rows, question, answer, category,
                              extract_keywords(question, ok))
    IN IF ins.raised
       THEN [ret |-> FALSE, rows |-> rows, proc |-> p]
       ELSE [ret |-> TRUE, rows |-> ins.rows,
             proc |-> reload_data(p, get_all_qa_pairs(ins.rows), ok)]

-----------------------------------------------------------------------------
(* CourseRecommender (src/src/nlp/course_recommender.py) over the courses  *)
(* table (src/src/database/db_manager.py).  Scores and weights are in      *)
(* thousandths.                                                            *)

\* the keys of self.interest_keywords, in the order of the dict
InterestOrder ==
    <<"machine_learning", "deep_learning", "computer_vision", "nlp", "data_science",
      "python", "research", "product", "robotics", "math">>

\* self.interest_keywords
interest_keywords ==
    [machine_learning |-> <<"masinnoe obucenie", "machine learning", "ml",
         "algoritmy masinnogo obucenia", "klassifikacia", "regressia",
         "klasterizacia", "obucenie s ucitelem", "obucenie bez ucitela",
         "supervised learning", "unsupervised learning">>,
     deep_learning |-> <<"glubokoe obucenie", "deep learning", "neyronnye seti",
         "neural networks", "cnn", "rnn", "lstm", "transformer", "svertocnye seti",
         "rekurrentnye seti">>,
     computer_vision |-> <<"kompjuternoe zrenie", "computer vision", "cv",
         "obrabotka izobrazeniy", "raspoznavanie obrazov", "image processing",
         "opencv", "detekcia objektov">>,
     nlp |-> <<"obrabotka estestvennogo azyka", "natural language processing", "nlp",
         "analiz teksta", "text mining", "sentiment analysis", "cat-boty", "bert">>,
     data_science |-> <<"data science", "analiz dannyh", "boljsie dannye",
         "big data", "statistika", "analytics", "pandas", "numpy",
         "vizualizacia dannyh">>,
     python |-> <<"python", "programmirovanie na python", "django", "flask",
         "fastapi", "pandas", "numpy", "scikit-learn", "pytorch", "tensorflow">>,
     research |-> <<"issledovania", "research", "naucnaa rabota", "publikacii",
         "statji", "eksperimenty", "analysis", "metodologia">>,
     product |-> <<"produkt", "product", "prodakt-menedzment", "product management",
         "biznes", "startap", "kommercializacia", "metriki", "a/b testirovanie">>,
     robotics |-> <<"robototehnika", "robotics", "roboty", "avtomatizacia",
         "sensors", "upravlenie", "kiberfiziceskie sistemy">>,
     math |-> <<"matematika", "mathematics", "statistika", "probability",
         "veroatnostj", "lineynaa algebra", "linear algebra", "optimizacia",
         "optimization">>]

\* self.program_priorities
program_priorities ==
    [AI |-> [machine_learning |-> 1000, deep_learning |-> 1000, research |-> 900,
            math |-> 800, python |-> 700, computer_vision |-> 800, nlp |-> 800],
     AI_Product |-> [product |-> 1000, machine_learning |-> 900, data_science |-> 900,
                    python |-> 800, deep_learning |-> 700, research |-> 600]]

\* interest_to_tags_mapping of calculate_course_score
interest_to_tags_mapping ==
    [computer_vision |-> <<"Computer Vision", "CV", "Vision">>,
     machine_learning |-> <<"Machine Learning", "ML">>,
     deep_learning |-> <<"Deep Learning", "Neural Networks">>,
     nlp |-> <<"NLP", "Natural Language Processing">>,
     data_science |-> <<"Data Science", "Analytics", "Statistics", "Math">>,
     python |-> <<"Python", "Programming">>,
     research |-> <<"Research", "Analysis">>,
     algorithms |-> <<"Algorithms", "Programming">>,
     math |-> <<"Math", "Statistics">>,
     web_development |-> <<"Web Development", "Programming">>]

\* cv_keywords of calculate_course_score
cv_keywords ==
    <<"izobrazen", "vision", "zrenie", "obrabotka izobrazeniy", "generacia izobrazeniy">>

\* the names of the programs table by id
ProgramNames == <<"AI", "AI_Product">>

\* DatabaseManager.get_all_courses: the rows joined with the name of their
\* program; a row has program_id and program_name and no key 'program', which
\* course.get('program') reads as None
get_all_courses(rows) ==
    [i \in 1..Len(rows) |->
        [id |-> i, name |-> rows[i].name, description |-> rows[i].description,
         tags |-> rows[i].tags, is_mandatory |-> rows[i].is_mandatory,
         program_id |-> rows[i].program_id,
         program_name |-> IF rows[i].program_id \in 1..Len(ProgramNames)
                          THEN ProgramNames[rows[i].program_id] ELSE None,
         program |-> None]]

\* the programs table as init_database creates it, for a build of SQLite
\* with the given default of PRAGMA foreign_keys (get_connection sets none)
EmptyPrograms(foreign_keys) == [rows |-> <<>>, seq |-> 0, foreign_keys |-> foreign_keys]

NoPrograms == EmptyPrograms(FALSE)

\* the ids of the rows of the programs table
ProgramIds(table) == {table.rows[k].id : k \in 1..Len(table.rows)}

\* DatabaseManager.insert_program: INSERT OR REPLACE deletes the row that has
\* the name (UNIQUE) and inserts a row under the next AUTOINCREMENT id, which
\* cursor.lastrowid returns; with foreign keys enforced the deletion of a
\* row that courses refer to fails
insert_program(table, course_rows, program) ==
    LET old == {table.rows[k].id : k \in {j \in 1..Len(table.rows) :
                                             table.rows[j].name = program.name}}
        referred == \E i \in 1..Len(course_rows) : course_rows[i].program_id \in old
        kept == SelectSeq(table.rows, LAMBDA r : r.name # program.name)
    IN IF table.foreign_keys /\ referred
       THEN [table |-> table, raised |-> TRUE, program_id |-> 0]
       ELSE [table |-> [table EXCEPT !.rows = Append(kept, [id |-> table.seq + 1,
                                                            name |-> program.name]),
                                     !.seq = table.seq + 1],
             raised |-> FALSE, program_id |-> table.seq + 1]

\* DatabaseManager.insert_course: the row is stored under the program_id the
\* caller passes; with foreign keys enforced an id of no program fails
insert_course(table, course_rows, course, program_id) ==
    IF table.foreign_keys /\ program_id \notin ProgramIds(table)
    THEN [rows |-> course_rows, raised |-> TRUE]
    ELSE [rows |-> Append(course_rows,
                          [name |-> course.name, description |-> course.description,
                           tags |-> course.tags, is_mandatory |-> course.is_mandatory,
                           program_id |-> program_id]),
          raised |-> FALSE]

RECURSIVE insert_courses_of(_, _, _, _)
\* the inner loop of insert_programs_with_courses; an exception ends it
insert_courses_of(table, course_rows, program_courses, program_id) ==
    IF program_courses = <<>> THEN [rows |-> course_rows, raised |-> FALSE]
    ELSE LET ins == insert_course(table, course_rows, Head(program_courses), program_id)
         IN IF ins.raised THEN ins
            ELSE insert_courses_of(table, ins.rows, Tail(program_courses), program_id)

RECURSIVE insert_programs_with_courses(_, _, _)
\* DatabaseManager.insert_programs_with_courses: each program, then its
\* courses under the id insert_program returned; nothing is caught, and what
\* was committed before an exception stays
insert_programs_with_courses(table, course_rows, program_list) ==
    IF program_list = <<>> THEN [table |-> table, rows |-> course_rows, raised |-> FALSE]
    ELSE LET p == insert_program(table, course_rows, Head(program_list))
             c == insert_courses_of(p.table, course_rows, Head(program_list).courses,
                                    p.program_id)
         IN IF p.raised THEN [table |-> table, rows |-> course_rows, raised |-> TRUE]
            ELSE IF c.raised THEN [table |-> p.table, rows |-> c.rows, raised |-> TRUE]
            ELSE insert_programs_with_courses(p.table, c.rows, Tail(program_list))

\* a weight of 0.3 per word without the 0.7
keyword_weight_per_word(keyword) == Len(StrSplit(keyword)) * 300

\* the Telegram users of the model
TelegramIds == {101}

\* the users table as init_database creates it
NoUsers == [rows |-> <<>>, seq |-> 0]

\* user_states of a new BotHandler: no user is in a dialogue
NoStates == [u \in TelegramIds |-> None]

\* the background column while it is NULL
NoBackground ==
    [raised |-> FALSE, experience_level |-> None, technical_skills |-> <<>>,
     domains |-> <<>>, interests |-> <<>>]

\* DatabaseManager.insert_user: INSERT OR REPLACE deletes the row of the
\* telegram_id (UNIQUE) and stores a row with the other columns NULL
insert_user(table, telegram_id, username) ==
    [rows |-> Append(SelectSeq(table.rows, LAMBDA r : r.telegram_id # telegram_id),
                     [id |-> table.seq + 1, telegram_id |-> telegram_id,
                      username |-> username, background |-> NoBackground,
                      interests |-> <<>>, preferred_program |-> None]),
     seq |-> table.seq + 1]

\* DatabaseManager.get_user_by_telegram_id: the rows of the telegram_id, none
\* or one
get_user_by_telegram_id(table, telegram_id) ==
    SelectSeq(table.rows, LAMBDA r : r.telegram_id = telegram_id)

\* DatabaseManager.update_user_preferences with an UPDATE of all three columns
update_user_preferences_all(table, telegram_id, background, interests, preferred_program) ==
    [table EXCEPT !.rows =
        [i \in 1..Len(table.rows) |->
            IF table.rows[i].telegram_id # telegram_id THEN table.rows[i]
            ELSE [table.rows[i] EXCEPT !.background = background,
                                       !.interests = interests,
                                       !.preferred_program = preferred_program]]]

\* DatabaseManager.update_user_preferences: UPDATE users SET the columns whose
\* argument is truthy WHERE telegram_id = ?  (NoBackground stands for the
\* argument None; a dict of an analysis has keys and is truthy)
update_user_preferences(table, telegram_id, background, interests, preferred_program) ==
    [table EXCEPT !.rows =
        [i \in 1..Len(table.rows) |->
            IF table.rows[i].telegram_id # telegram_id THEN table.rows[i]
            ELSE [table.rows[i] EXCEPT
                     !.background = IF background # NoBackground THEN background ELSE @,
                     !.interests = IF interests # <<>> THEN interests ELSE @,
                     !.preferred_program =
                         IF preferred_program \notin {None, ""} THEN preferred_program
                         ELSE @]]]

\* CourseRecommender.save_recommendations: a row of course_recommendations
\* for each recommendation, if the user is stored
save_recommendations(rows, table, telegram_id, recs) ==
    IF get_user_by_telegram_id(table, telegram_id) = <<>> THEN rows
    ELSE rows \o [k \in 1..Len(recs) |->
                     [user_id |-> get_user_by_telegram_id(table, telegram_id)[1].id,
                      course_id |-> recs[k].course_id, score |-> recs[k].score,
                      reason |-> recs[k].reason]]

\* the weight of one keyword: len(keyword.split()) * 0.3 + 0.7
keyword_weight(keyword) == Len(StrSplit(keyword)) * 300 + 700

\* the score extract_interests_from_text adds up for one interest
interest_text_score(interest, text_lower) ==
    LET found == SelectSeq(interest_keywords[interest], LAMBDA k : Contains(text_lower, k))
        weight == [i \in 1..Len(found) |-> keyword_weight(found[i])]
    IN SumSet(weight, 1..Len(found))

\* extract_interests_from_text without min(score, 1.0)
extract_interests_unclamped(text) ==
    IF text = None \/ text = "" THEN <<>>
    ELSE LET text_lower == StrLower(text)
             hit == SelectSeq(InterestOrder,
                              LAMBDA interest : interest_text_score(interest, text_lower) > 0)
         IN [i \in 1..Len(hit) |->
                [interest |-> hit[i], weight |-> interest_text_score(hit[i], text_lower)]]

\* CourseRecommender.extract_interests_from_text: the dict as the sequence of
\* its items
extract_interests_from_text(text) ==
    IF text = None \/ text = "" THEN <<>>
    ELSE LET text_lower == StrLower(text)
             hit == SelectSeq(InterestOrder,
                              LAMBDA interest : interest_text_score(interest, text_lower) > 0)
         IN [i \in 1..Len(hit) |->
                [interest |-> hit[i],
                 weight |-> Min(interest_text_score(hit[i], text_lower), 1000)]]

\* possible_tags of calculate_course_score
possible_tags(interest) ==
    IF interest \in DOMAIN interest_to_tags_mapping
    THEN interest_to_tags_mapping[interest]
    ELSE <<StrTitle(interest)>>

\* the test of the tag loop of calculate_course_score
tag_matches(possible_tag, tag) ==
    \/ Contains(StrLower(tag), StrLower(possible_tag))
    \/ Contains(StrLower(possible_tag), StrLower(tag))

RECURSIVE tag_reasons(_, _)
\* the reasons the tag loop appends: one per pair of a course tag and a
\* possible tag that match
tag_reasons(course_tags, possible) ==
    IF course_tags = <<>> THEN <<>>
    ELSE LET tag == Head(course_tags)
             hits == SelectSeq(possible, LAMBDA pt : tag_matches(pt, tag))
         IN [i \in 1..Len(hits) |-> "Sovpadenie po tegu '" \o tag \o "'"]
            \o tag_reasons(Tail(course_tags), possible)

\* the reasons of the keywords of an interest found in the name of the course
name_reasons(interest, course_name) ==
    LET keywords == IF interest \in DOMAIN interest_keywords
                    THEN interest_keywords[interest] ELSE <<>>
        hits == SelectSeq(keywords, LAMBDA k : Contains(course_name, k))
    IN [i \in 1..Len(hits) |-> "Sovpadenie '" \o hits[i] \o "' v nazvanii kursa"]

\* the reasons of the additional check for computer_vision
cv_reasons(interest, course_name) ==
    IF interest # "computer_vision" THEN <<>>
    ELSE LET hits == SelectSeq(cv_keywords, LAMBDA k : Contains(course_name, k))
         IN [i \in 1..Len(hits) |-> "CV klucevoe slovo '" \o hits[i] \o "'"]

\* program_weight of calculate_course_score
program_weight(interest, preferred_program) ==
    IF preferred_program \notin {None, ""} /\ preferred_program \in DOMAIN program_priorities
    THEN (IF interest \in DOMAIN program_priorities[preferred_program]
          THEN program_priorities[preferred_program][interest] ELSE 700)
    ELSE 1000

\* interest_score after the three checks of one interest: 0.5 per keyword in
\* the name, 0.7 per matching pair of tags, 0.8 per CV keyword in the name
interest_score(interest, course_name, course_tags) ==
    500 * Len(name_reasons(interest, course_name))
    + 700 * Len(tag_reasons(course_tags, possible_tags(interest)))
    + 800 * Len(cv_reasons(interest, course_name))

\* the reasons the three checks of one interest append, in their order
interest_reasons(interest, course_name, course_tags) ==
    name_reasons(interest, course_name)
    \o tag_reasons(course_tags, possible_tags(interest))
    \o cv_reasons(interest, course_name)

\* what one interest adds to base_score
contribution(score, user_score, weight) ==
    IF score > 0 THEN (Min(score, 1000) * user_score * weight) \div 1000000 ELSE 0

\* one pass of the loop over user_interests.items()
add_interest(acc, course, item, preferred_program) ==
    [base_score |-> acc.base_score
         + contribution(interest_score(item.interest, StrLower(course.name), course.tags),
                        item.weight, program_weight(item.interest, preferred_program)),
     reasons |-> acc.reasons
         \o interest_reasons(item.interest, StrLower(course.name), course.tags)]

RECURSIVE score_interests(_, _, _)
\* the loop of calculate_course_score over user_interests.items(): base_score
\* and reasons after it
score_interests(course, user_interests, preferred_program) ==
    IF user_interests = <<>> THEN [base_score |-> 0, reasons |-> <<>>]
    ELSE add_interest(score_interests(course,
                                      SubSeq(user_interests, 1, Len(user_interests) - 1),
                                      preferred_program),
                      course, user_interests[Len(user_interests)], preferred_program)

\* the bonus of a mandatory course given whatever base_score is
mandatory_bonus_always(acc, course) ==
    IF course.is_mandatory
    THEN [base_score |-> acc.base_score + 200,
          reasons |-> Append(acc.reasons, "Obazateljnyy kurs programmy")]
    ELSE acc

\* the bonus of a mandatory course, only if nothing else matched
mandatory_bonus(acc, course) ==
    IF acc.base_score = 0 /\ course.is_mandatory
    THEN [base_score |-> acc.base_score + 200,
          reasons |-> Append(acc.reasons, "Obazateljnyy kurs programmy")]
    ELSE acc

\* the bonus of a course of the preferred program, only if base_score > 0
preferred_bonus(acc, course, preferred_program) ==
    IF /\ preferred_program \notin {None, ""}
       /\ course.program = preferred_program
       /\ acc.base_score > 0
    THEN [base_score |-> acc.base_score + 200,
          reasons |-> Append(acc.reasons, "Kurs iz predpocitaemoy programmy")]
    ELSE acc

\* the score without the final min(base_score, 1.0)
final_score_unbounded(base_score) == base_score

\* final_score = min(base_score, 1.0)
final_score(base_score) == Min(base_score, 1000)

\* what calculate_course_score returns once the bonuses are added
scored(acc) ==
    [raised |-> FALSE, score |-> final_score(acc.base_score),
     reason |-> IF acc.reasons # <<>> THEN JoinWith("; ", Take(acc.reasons, 3))
                ELSE GeneralReason]

\* CourseRecommender.calculate_course_score; a description that is None has
\* no lower() and raises
calculate_course_score(course, user_interests, preferred_program) ==
    IF user_interests = <<>>
    THEN [raised |-> FALSE, score |-> 0, reason |-> NoInterests]
    ELSE IF course.description = None
    THEN [raised |-> TRUE, score |-> 0, reason |-> None]
    ELSE scored(preferred_bonus(
             mandatory_bonus(score_interests(course, user_interests, preferred_program),
                             course),
             course, preferred_program))

\* one item of a list of recommendations
Recommendation(course, score, reason) ==
    [course |-> course, score |-> score, reason |-> reason, course_id |-> course.id,
     course_name |-> course.name, program_name |-> course.program_name,
     is_mandatory |-> course.is_mandatory]

RECURSIVE SortAscendingReversed(_)
\* sorted(recs, key=score)[::-1]: descending, equal scores in reverse order
SortAscendingReversed(recs) ==
    IF recs = <<>> THEN <<>>
    ELSE LET i == CHOOSE k \in 1..Len(recs) :
                      /\ \A j \in 1..Len(recs) : recs[j].score <= recs[k].score
                      /\ \A j \in (k + 1)..Len(recs) : recs[j].score < recs[k].score
         IN <<recs[i]>>
            \o SortAscendingReversed(SubSeq(recs, 1, i - 1) \o SubSeq(recs, i + 1, Len(recs)))

RECURSIVE SortByScore(_)
\* list.sort(key=score, reverse=True): descending and stable
SortByScore(recs) ==
    IF recs = <<>> THEN <<>>
    ELSE LET i == CHOOSE k \in 1..Len(recs) :
                      /\ \A j \in 1..Len(recs) : recs[j].score <= recs[k].score
                      /\ \A j \in 1..(k - 1) : recs[j].score < recs[k].score
         IN <<recs[i]>> \o SortByScore(SubSeq(recs, 1, i - 1) \o SubSeq(recs, i + 1, Len(recs)))

\* recommend_courses returning every recommendation it sorted
cut_none(recs, top_k) == recs

\* recommend_courses: return recommendations[:top_k]
cut(recs, top_k) == Take(recs, top_k)

\* the loop of recommend_courses: the courses that reach min_score, sorted and cut
recommendations(all_courses, scores, top_k, min_score) ==
    cut(SortByScore(SelectSeq([i \in 1..Len(all_courses) |->
                                  Recommendation(all_courses[i], scores[i].score,
                                                 scores[i].reason)],
                              LAMBDA r : r.score >= min_score)),
        top_k)

\* the scores of the courses of a catalog
score_all(all_courses, user_interests, preferred_program) ==
    [i \in 1..Len(all_courses) |->
        calculate_course_score(all_courses[i], user_interests, preferred_program)]

\* recommend_courses once the scores are known; a score that raised leaves
\* the method
recommend_scored(all_courses, scores, top_k, min_score) ==
    IF \E i \in 1..Len(scores) : scores[i].raised
    THEN [raised |-> TRUE, items |-> <<>>]
    ELSE [raised |-> FALSE,
          items |-> recommendations(all_courses, scores, top_k, min_score)]

\* CourseRecommender.recommend_courses over the rows of the courses table
recommend_courses(rows, user_interests, preferred_program, top_k, min_score) ==
    IF get_all_courses(rows) = <<>> THEN [raised |-> FALSE, items |-> <<>>]
    ELSE recommend_scored(get_all_courses(rows),
                          score_all(get_all_courses(rows), user_interests,
                                    preferred_program),
                          top_k, min_score)

\* the sort key of get_general_recommendations: (not is_mandatory, name)
general_before(x, y) ==
    \/ x.is_mandatory /\ ~y.is_mandatory
    \/ x.is_mandatory = y.is_mandatory /\ StrLess(x.name, y.name)

RECURSIVE SortGeneral(_)
\* list.sort(key=...): ascending and stable
SortGeneral(cs) ==
    IF cs = <<>> THEN <<>>
    ELSE LET i == CHOOSE k \in 1..Len(cs) :
                      /\ \A j \in 1..Len(cs) : ~general_before(cs[j], cs[k])
                      /\ \A j \in 1..(k - 1) : general_before(cs[k], cs[j])
         IN <<cs[i]>> \o SortGeneral(SubSeq(cs, 1, i - 1) \o SubSeq(cs, i + 1, Len(cs)))

\* CourseRecommender.get_general_recommendations
get_general_recommendations(rows, preferred_program, top_k) ==
    LET all_courses == get_all_courses(rows)
        filtered_courses ==
            IF preferred_program \notin {None, ""}
            THEN SelectSeq(all_courses, LAMBDA c : c.program = preferred_program)
            ELSE all_courses
        first == Take(SortGeneral(filtered_courses), top_k)
    IN [raised |-> FALSE,
        items |-> [k \in 1..Len(first) |->
                      Recommendation(first[k], 500, GeneralRecommendation)]]

\* the default of min_score of recommend_courses
DEFAULT_MIN_SCORE == 100

\* CourseRecommender.recommend_courses_from_text
recommend_courses_from_text(rows, user_text, preferred_program, top_k) ==
    LET interests == extract_interests_from_text(user_text)
    IN IF interests = <<>>
       THEN get_general_recommendations(rows, preferred_program, top_k)
       ELSE recommend_courses(rows, interests, preferred_program, top_k, DEFAULT_MIN_SCORE)

\* the words analyze_user_background takes for experience and for study
experienced_words == <<"opyt", "rabotal", "rabotau", "experience", "senior", "lead">>
intermediate_words == <<"izucal", "izucau", "nacinausiy", "beginner", "junior">>

\* tech_skills of analyze_user_background: the skills in the order of the dict
TechSkillOrder == <<"Python", "Java", "C++", "JavaScript", "SQL", "Git">>
tech_skills(skill) ==
    CASE skill = "Python" -> <<"python", "piton">>
      [] skill = "Java" -> <<"java">>
      [] skill = "C++" -> <<"c++", "cpp">>
      [] skill = "JavaScript" -> <<"javascript", "js", "node.js">>
      [] skill = "SQL" -> <<"sql", "database", "baza dannyh">>
      [] skill = "Git" -> <<"git", "github", "gitlab">>

\* any(word in text_lower for word in words)
AnyIn(words, text_lower) == \E i \in 1..Len(words) : Contains(text_lower, words[i])

\* the level analyze_user_background reads from the text
experience_level(text_lower) ==
    IF AnyIn(experienced_words, text_lower) THEN "experienced"
    ELSE IF AnyIn(intermediate_words, text_lower) THEN "intermediate"
    ELSE "beginner"

\* CourseRecommender.analyze_user_background; None has no lower() and raises
\* after extract_interests_from_text returned
analyze_user_background(background_text) ==
    IF background_text = None
    THEN [raised |-> TRUE, experience_level |-> None, technical_skills |-> <<>>,
          domains |-> <<>>, interests |-> <<>>]
    ELSE [raised |-> FALSE,
          experience_level |-> experience_level(StrLower(background_text)),
          technical_skills |->
              SelectSeq(TechSkillOrder,
                        LAMBDA skill : AnyIn(tech_skills(skill), StrLower(background_text))),
          domains |-> <<>>,
          interests |-> extract_interests_from_text(background_text)]

-----------------------------------------------------------------------------
(* SmartQAProcessor (src/src/nlp/smart_qa_processor.py): the local smart   *)
(* answers                                                                 *)

\* str.strip()
RECURSIVE StrStrip(_)
StrStrip(s) ==
    IF s = "" THEN ""
    ELSE IF CharAt(s, 1) = " " THEN StrStrip(SubSeq(s, 2, Len(s)))
    ELSE IF CharAt(s, Len(s)) = " " THEN StrStrip(SubSeq(s, 1, Len(s) - 1))
    ELSE s

\* bool(s) of an Optional[str]
Truthy(s) == s \notin {None, ""}

\* self.question_patterns, in the order of the dict and as far as the words
\* of the model go: the regular expression 'first.*?(a|b)' is the word first
\* and the alternatives one of which follows it; a plain expression has none
question_patterns ==
    <<[type |-> "courses_by_topic", first |-> "kurs",
       alternatives |-> <<"machine learning", "ml">>],
      [type |-> "courses_by_topic", first |-> "kurs",
       alternatives |-> <<"computer vision", "cv", "izobrazeni">>],
      [type |-> "courses_by_topic", first |-> "kurs",
       alternatives |-> <<"python", "piton", "programmirovani">>],
      [type |-> "program_comparison", first |-> "cem otlicautsa programmy",
       alternatives |-> <<>>],
      [type |-> "program_comparison", first |-> "kakuu programmu vybratj",
       alternatives |-> <<>>],
      [type |-> "learning_tracks", first |-> "elektivy", alternatives |-> <<>>],
      [type |-> "learning_tracks", first |-> "track", alternatives |-> <<>>],
      [type |-> "admission_info", first |-> "kak postupitj", alternatives |-> <<>>],
      [type |-> "admission_info", first |-> "ekzamen", alternatives |-> <<>>],
      [type |-> "career_prospects", first |-> "gde rabotatj", alternatives |-> <<>>],
      [type |-> "career_prospects", first |-> "zarplat", alternatives |-> <<>>],
      [type |-> "duration_info", first |-> "prodolziteljnostj", alternatives |-> <<>>],
      [type |-> "duration_info", first |-> "kak dolgo", alternatives |-> <<>>]>>

\* re.search(pattern, question_lower)
pattern_matches(pattern, question_lower) ==
    IF pattern.alternatives = <<>> THEN Contains(question_lower, pattern.first)
    ELSE \E i \in 1..(Len(question_lower) - Len(pattern.first) + 1) :
             /\ SubSeq(question_lower, i, i + Len(pattern.first) - 1) = pattern.first
             /\ AnyIn(pattern.alternatives,
                      SubSeq(question_lower, i + Len(pattern.first), Len(question_lower)))

\* the patterns found in a question
matching_patterns(question_lower) ==
    {k \in 1..Len(question_patterns) : pattern_matches(question_patterns[k], question_lower)}

\* the type of the first of the patterns found
first_type(found) ==
    IF found = {} THEN "general"
    ELSE question_patterns[CHOOSE k \in found : \A j \in found : k <= j].type

\* SmartQAProcessor.detect_question_type: the type of the first pattern found
detect_question_type(question) == first_type(matching_patterns(StrLower(question)))

\* the tests of _extract_topic_from_question on the lowered question
extract_topic(question_lower) ==
    IF AnyIn(<<"machine learning", "masinnoe obucenie", "mo">>, question_lower)
    THEN "machine_learning"
    ELSE IF AnyIn(<<"deep learning", "glubokoe obucenie", "neyronnye seti">>, question_lower)
    THEN "deep_learning"
    ELSE IF AnyIn(<<"computer vision", "kompjuternoe zrenie", "cv", "izobrazenie">>,
                  question_lower)
    THEN "computer_vision"
    ELSE IF AnyIn(<<"nlp", "natural language", "azyk">>, question_lower)
    THEN "nlp"
    ELSE IF Contains(question_lower, "python") THEN "python"
    ELSE None

\* SmartQAProcessor._extract_topic_from_question
extract_topic_from_question(question) == extract_topic(StrLower(question))

\* any(tag.lower() in labels for tag in tags)
AnyTagIn(tags, labels) == \E i \in 1..Len(tags) : StrLower(tags[i]) \in labels

\* the classification of one course in _build_smart_responses
course_has_topic(course, topic) ==
    CASE topic = "machine_learning" ->
             \/ AnyTagIn(course.tags, {"machine learning", "ml"})
             \/ Contains(StrLower(course.name), "masinnoe obucenie")
      [] topic = "deep_learning" ->
             \/ AnyTagIn(course.tags, {"deep learning", "neural networks"})
             \/ Contains(StrLower(course.name), "glubokoe obucenie")
      [] topic = "computer_vision" ->
             \/ AnyTagIn(course.tags, {"computer vision", "cv"})
             \/ AnyIn(<<"izobrazeni", "zreni", "vision">>, StrLower(course.name))
      [] topic = "nlp" ->
             \/ AnyTagIn(course.tags, {"nlp", "natural language processing"})
             \/ Contains(StrLower(course.name), "azyk")
      [] topic = "python" ->
             \/ AnyTagIn(course.tags, {"python", "programming"})
             \/ Contains(StrLower(course.name), "python")
      [] OTHER -> FALSE

\* self.smart_responses['courses_by_topic'][topic] as _build_smart_responses
\* fills it; a topic without courses is not a key of the dict
courses_by_topic(all_courses, topic) ==
    SelectSeq(all_courses, LAMBDA course : course_has_topic(course, topic))

\* topic_names of _answer_courses_by_topic
topic_names(topic) ==
    CASE topic = "machine_learning" -> "masinnomu obuceniu"
      [] topic = "deep_learning" -> "glubokomu obuceniu"
      [] topic = "computer_vision" -> "kompjuternomu zreniu"
      [] topic = "nlp" -> "obrabotke estestvennogo azyka"
      [] topic = "python" -> "Python"
      [] OTHER -> "ukazannoy teme"

\* str(i) of a small number
Digit(i) == CharAt("0123456789", i + 1)

RECURSIVE Concat(_)
\* ''.join(parts)
Concat(parts) == IF parts = <<>> THEN "" ELSE Head(parts) \o Concat(Tail(parts))

\* the lines _answer_courses_by_topic writes for one course (the line of the
\* semester, a column the rows of the model do not carry, is left out)
topic_course_lines(course, i) ==
    Digit(i) \o ". " \o course.name \o "\n"
    \o "   Programma: " \o course.program_name \o "\n"
    \o (IF course.tags # <<>>
        THEN "   Tegi: " \o JoinWith(", ", Take(course.tags, 3)) \o "\n" ELSE "")
    \o "\n"

\* the answer of _answer_courses_by_topic once the courses of the topic are
\* looked up
topic_answer(topic, topic_courses) ==
    IF topic_courses = <<>>
    THEN "Ne mogu nayti kursy po ukazannoy teme. Poprobuyte pereformulirovatj vopros."
    ELSE "Kursy po " \o topic_names(topic) \o ":\n\n"
         \o Concat([i \in 1..Min(5, Len(topic_courses)) |->
                       topic_course_lines(topic_courses[i], i)])
         \o "Dla polucenia personaljnyh rekomendaciy nazmite 'Polucitj rekomendacii'"

\* self.smart_responses['courses_by_topic'].get(topic, []) for an Optional topic
courses_of_topic(all_courses, topic) ==
    IF topic = None THEN <<>> ELSE courses_by_topic(all_courses, topic)

\* the answer of _answer_courses_by_topic once the topic is known
answer_topic(all_courses, topic) == topic_answer(topic, courses_of_topic(all_courses, topic))

\* SmartQAProcessor._answer_courses_by_topic
answer_courses_by_topic(all_courses, question) ==
    answer_topic(all_courses, extract_topic_from_question(question))

\* SmartQAProcessor._generate_smart_response: the answer by type, None for a
\* general question.  No program of the model is named 'iskusstvennyy
\* intellekt' or 'ai-produkt', so there is no stored comparison; of the
\* answers that are fixed texts the first line is kept.
generate_smart_response(all_courses, question_type, question) ==
    CASE question_type = "courses_by_topic" -> answer_courses_by_topic(all_courses, question)
      [] question_type = "program_comparison" ->
             "Informacia o sravnenii programm vremenno nedostupna."
      [] question_type = "learning_tracks" -> "Traektorii obucenia v ITMO:"
      [] question_type = "admission_info" -> "Trebovania dla postuplenia:"
      [] question_type = "career_prospects" -> "Karjernye perspektivy vypusknikov:"
      [] question_type = "duration_info" -> "Prodolziteljnostj obucenia:"
      [] OTHER -> None

\* the lines of the related questions, in _enhance_answer and in handle_question
related_lines(related) ==
    Concat([k \in 1..Len(related) |-> "* " \o related[k].question \o "\n"])

\* the courses _enhance_answer lists for a question about courses
relevant_courses(all_courses, question_type, question) ==
    IF question_type = "courses_by_topic"
    THEN Take(courses_of_topic(all_courses, extract_topic_from_question(question)), 3)
    ELSE <<>>

\* the lines of the relevant courses in _enhance_answer
relevant_lines(relevant) ==
    Concat([i \in 1..Len(relevant) |->
               "* " \o relevant[i].name \o " (" \o relevant[i].program_name \o ")\n"])

\* SmartQAProcessor._enhance_answer once the relevant courses and the related
\* questions are looked up
enhanced_answer(base_answer, relevant, related) ==
    base_answer
    \o (IF relevant # <<>> THEN "\n\nRelevantnye kursy:\n" \o relevant_lines(relevant)
        ELSE "")
    \o (IF related # <<>>
        THEN "\n\nVozmozno, vas takze interesuet:\n" \o related_lines(related)
        ELSE "")
    \o "\n\nOtvet ulucsen umnoy sistemoy analiza"

\* SmartQAProcessor._enhance_answer
enhance_answer(p, all_courses, base_answer, question_type, question, ok) ==
    enhanced_answer(base_answer, relevant_courses(all_courses, question_type, question),
                    get_related_questions(p, question, 2, ok).related)

\* what the two generate_smart_answer return: the keys handle_question reads
SmartResult(answer, confidence, method, is_ai_generated) ==
    [answer |-> answer, confidence |-> confidence, method |-> method,
     is_ai_generated |-> is_ai_generated]

\* the result of the basic matcher as a generate_smart_answer returns it
BaseResult(result, method) == SmartResult(result.answer, result.confidence, method, FALSE)

\* the branches of SmartQAProcessor.generate_smart_answer on the basic
\* answer, its enhancement and the smart response
smart_result_of(base_result, enhanced, smart_answer) ==
    IF base_result.confidence > 700
    THEN SmartResult(enhanced, Min(base_result.confidence + 100, 1000),
                     "smart_enhanced", FALSE)
    ELSE IF Truthy(smart_answer) THEN SmartResult(smart_answer, 850, "smart_local", TRUE)
    ELSE BaseResult(base_result, None)

\* SmartQAProcessor.generate_smart_answer once the basic answer and the type
\* of the question are known
smart_answer_of(p, all_courses, base_result, question_type, question, ok) ==
    smart_result_of(base_result,
                    enhance_answer(p, all_courses, base_result.answer, question_type,
                                   question, ok),
                    generate_smart_response(all_courses, question_type, question))

\* SmartQAProcessor.generate_smart_answer
SmartQA_generate_smart_answer(p, all_courses, question, ok) ==
    smart_answer_of(p, all_courses, get_answer(p, question, ok),
                    detect_question_type(question), question, ok)

-----------------------------------------------------------------------------
(* FreeGPTIntegration (src/src/nlp/free_gpt_integration.py): the external  *)
(* APIs.  What an API replies is an input: a text, '' or None (call_* turn  *)
(* every failure of a request into None).                                  *)

\* self.free_apis: name, auth_required and key_env
free_apis ==
    <<[name |-> "ProxyAPI", auth_required |-> TRUE, key_env |-> "PROXYAPI_KEY"],
      [name |-> "GPT4Free", auth_required |-> FALSE, key_env |-> None],
      [name |-> "Groq", auth_required |-> TRUE, key_env |-> "GROQ_API_KEY"],
      [name |-> "Together", auth_required |-> TRUE, key_env |-> "TOGETHER_API_KEY"],
      [name |-> "Hugging Face", auth_required |-> TRUE, key_env |-> "HF_API_KEY"]>>

\* FreeGPTIntegration.get_available_apis
get_available_apis(keys) ==
    SelectSeq(free_apis, LAMBDA api : ~api.auth_required \/ api.key_env \in keys)

\* FreeGPTIntegration.is_available
is_available(keys) == Len(get_available_apis(keys)) > 0

\* FreeGPTIntegration.try_free_apis: the first reply that is not empty
try_free_apis(keys, reply) ==
    IF "PROXYAPI_KEY" \in keys /\ Truthy(reply["ProxyAPI"]) THEN reply["ProxyAPI"]
    ELSE IF Truthy(reply["GPT4Free"]) THEN reply["GPT4Free"]
    ELSE IF "GROQ_API_KEY" \in keys /\ Truthy(reply["Groq"]) THEN reply["Groq"]
    ELSE IF "TOGETHER_API_KEY" \in keys /\ Truthy(reply["Together"]) THEN reply["Together"]
    ELSE None

\* generate_smart_answer that takes whatever try_free_apis returned for an answer
FreeGPT_answer_unchecked(gpt_answer, fallback_result) ==
    SmartResult(gpt_answer, 900, "free_gpt_rag", TRUE)

\* FreeGPTIntegration.generate_smart_answer once try_free_apis returned:
\* the answer of the API, or the answer of the basic matcher
FreeGPT_answer(gpt_answer, fallback_result) ==
    IF Truthy(gpt_answer) THEN SmartResult(gpt_answer, 900, "free_gpt_rag", TRUE)
    ELSE BaseResult(fallback_result, "fallback_qa")

\* the branches of FreeGPTIntegration.generate_smart_answer
gpt_result_of(available, gpt_answer, fallback_result) ==
    IF ~available THEN BaseResult(fallback_result, None)
    ELSE FreeGPT_answer(gpt_answer, fallback_result)

\* FreeGPTIntegration.generate_smart_answer
FreeGPT_generate_smart_answer(p, keys, reply, question, ok) ==
    gpt_result_of(is_available(keys), try_free_apis(keys, reply),
                  get_answer(p, question, ok))

-----------------------------------------------------------------------------
(* BotHandler (src/src/bot/bot_handler.py): free-text questions *)

\* GPT_MODE_THRESHOLD of src/config.py, in thousandths
GPT_MODE_THRESHOLD == 500

\* what a handler returns: text and keyboard (the keyboard by the name of the
\* method that builds it), or an exception
Response(text, keyboard) == [raised |-> FALSE, text |-> text, keyboard |-> keyboard]
RaisedResponse == [raised |-> TRUE, text |-> None, keyboard |-> None]

\* the lines handle_question puts after an answer of the external GPT and of
\* the local smart system
GptNote == "\n\nOtvet ot besplatnogo GPT s bazoy znaniy ITMO"
SmartNote == "\n\nUmnyy analiz na osnove bazy znaniy ITMO"

\* the answer of process_message to an exception
ErrorResponse ==
    Response("Izvinite, proizosla osibka. Poprobuyte pozze ili obratitesj k administratoru.",
             "main")

\* self.gpt_available of BotHandler.__init__
gpt_available(g) == g.enable_gpt_mode /\ is_available(g.keys)

\* response_text = answer + note; a None answer has no + and raises
noted_response(answer, note, keyboard) ==
    IF answer = None THEN RaisedResponse ELSE Response(answer \o note, keyboard)

\* the last part of handle_question: the answer of the basic matcher, the
\* hints below 0.5, the related questions above 0.3
basic_response(result, related) ==
    Response(result.answer
             \o (IF result.confidence < 500
                 THEN "\n\nEsli otvet ne podhodit, poprobuyte pereformulirovatj vopros."
                      \o "\nIli ispoljzuyte knopku 'Umnyy otvet' dla detaljnogo analiza."
                 ELSE "")
             \o (IF result.confidence > 300 /\ related # <<>>
                 THEN "\n\nVozmozno, vas takze interesuet:\n" \o related_lines(related)
                 ELSE ""),
             IF result.confidence < 700 THEN "smart" ELSE "main")

\* whether handle_question asks the external GPT
asks_gpt(g, result) ==
    gpt_available(g) /\ result.confidence < GPT_MODE_THRESHOLD /\ ~result.is_exact_match

\* whether handle_question returns what the local smart system answered
takes_smart(smart_result) ==
    smart_result.is_ai_generated \/ smart_result.method \in {"smart_enhanced", "smart_local"}

\* the branches of handle_question on the answer of the basic matcher, of the
\* external GPT, of the local smart system, and the related questions
respond(g, result, gpt_result, smart_result, related) ==
    IF result.raised THEN RaisedResponse
    ELSE IF asks_gpt(g, result) /\ gpt_result.is_ai_generated
    THEN noted_response(gpt_result.answer, GptNote, "gpt")
    ELSE IF result.confidence < GPT_MODE_THRESHOLD /\ takes_smart(smart_result)
    THEN noted_response(smart_result.answer, SmartNote, "smart")
    ELSE basic_response(result, related)

\* BotHandler.handle_question: bp, gp and sp are the QAProcessor of the
\* handler, of FreeGPTIntegration and of SmartQAProcessor; detect_question_type
\* lowers the question outside every try block, so None raises
handle_question(bp, gp, sp, all_courses, g, reply, question, ok) ==
    IF question = None THEN RaisedResponse
    ELSE respond(g, get_answer(bp, question, ok),
                 FreeGPT_generate_smart_answer(gp, g.keys, reply, question, ok),
                 SmartQA_generate_smart_answer(sp, all_courses, question, ok),
                 get_related_questions(bp, question, 2, ok).related)

\* the except clause of process_message
message_try_except(r) == IF r.raised THEN ErrorResponse ELSE r

\* BotHandler.process_message for a message that is no command, no quick
\* question and not part of a dialogue: message.strip() raises on None
process_message(bp, gp, sp, all_courses, g, reply, message, ok) ==
    message_try_except(
        IF message = None THEN RaisedResponse
        ELSE handle_question(bp, gp, sp, all_courses, g, reply, StrStrip(message), ok))

-----------------------------------------------------------------------------
(* BotHandler: commands, quick questions and dialogues.  A handler takes   *)
(* the users table, user_states and the course_recommendations table as    *)
(* the record w and returns them with its response.  The fixed texts are   *)
(* shortened, the arrow and the pictograms of the buttons are written      *)
(* "<-", "[gpt]" and "[smart]".                                            *)

\* the two messages handle_state_message takes for a cancellation
CancelMessage == "<- Otmena"
BackMessage == "<- Nazad v glavnoe menu"

\* self.command_handlers: the handler of each command
command_handlers ==
    [c \in {"/start", "/help", "/programs", "/courses", "/recommend", "/profile", "/faq",
            "/gpt", "/smart", "/compare"} |->
        CASE c = "/start" -> "handle_start"
          [] c = "/help" -> "handle_help"
          [] c = "/programs" -> "handle_programs"
          [] c = "/courses" -> "handle_courses"
          [] c = "/recommend" -> "handle_recommend"
          [] c = "/profile" -> "handle_profile"
          [] c = "/faq" -> "handle_faq"
          [] c = "/gpt" -> "handle_gpt_mode"
          [] c = "/smart" -> "handle_smart_mode"
          [] c = "/compare" -> "handle_program_comparison"]

\* self.quick_questions: the handler of each button
quick_questions ==
    [q \in {"Kakie programmy dostupny?", "Skoljko dlitsa obucenie?",
            "Trebovania dla postuplenia?", "Karjernye perspektivy?",
            "Polucitj rekomendacii", "Zadatj vopros", "Obnovitj profilj", "Vse kursy",
            "O programmah", "<- Glavnoe menu", "Posmotretj kursy", "Nastroitj profilj",
            "[gpt] Umnyy otvet", "[smart] Umnyy otvet", "Sravnitj programmy"} |->
        CASE q = "Kakie programmy dostupny?" -> "handle_programs"
          [] q = "Skoljko dlitsa obucenie?" -> "handle_duration_question"
          [] q = "Trebovania dla postuplenia?" -> "handle_admission_question"
          [] q = "Karjernye perspektivy?" -> "handle_career_question"
          [] q = "Polucitj rekomendacii" -> "handle_recommend"
          [] q = "Zadatj vopros" -> "handle_ask_question_mode"
          [] q = "Obnovitj profilj" -> "handle_profile"
          [] q = "Vse kursy" -> "handle_courses"
          [] q = "O programmah" -> "handle_programs"
          [] q = "<- Glavnoe menu" -> "handle_start"
          [] q = "Posmotretj kursy" -> "handle_courses"
          [] q = "Nastroitj profilj" -> "handle_profile"
          [] q = "[gpt] Umnyy otvet" -> "handle_gpt_mode"
          [] q = "[smart] Umnyy otvet" -> "handle_smart_mode"
          [] q = "Sravnitj programmy" -> "handle_program_comparison"]

\* what a handler returns with the state it leaves
Handled(w, text, keyboard) == [w |-> w, resp |-> Response(text, keyboard)]

\* self.user_states[user_id] = {'state': state}
set_state(w, user_id, state) == [w EXCEPT !.user_states[user_id] = state]

\* self.user_states.pop(user_id, None)
pop_state(w, user_id) == [w EXCEPT !.user_states[user_id] = None]

\* the lines generate_recommendations writes for the recommendations (the
\* lines of semester, credits and relevance are left out)
recommendation_lines(recs) ==
    Concat([k \in 1..Len(recs) |->
               Digit(k) \o ". " \o recs[k].course_name \o "\n"
               \o "Programma: " \o recs[k].program_name \o "\n"
               \o "Obosnovanie: " \o recs[k].reason \o "\n\n"])

\* generate_recommendations once recommend_courses returned
recommendations_response(w, user_id, recs) ==
    IF recs.raised
    THEN Handled(w, "Proizosla osibka pri generacii rekomendaciy. Poprobuyte pozze.", "main")
    ELSE IF recs.items = <<>>
    THEN Handled(w, "K sozaleniu, ne udalosj nayti podhodasie kursy.", "main")
    ELSE Handled([w EXCEPT !.saved = save_recommendations(w.saved, w.users, user_id,
                                                          recs.items)],
                 "Personaljnye rekomendacii kursov:\n\n" \o recommendation_lines(recs.items),
                 "recommendations")

\* BotHandler.generate_recommendations: user is the row read before, none or
\* one; user.get of None raises inside the try block
generate_recommendations(w, user_id, user, course_rows) ==
    IF user = <<>>
    THEN Handled(w, "Proizosla osibka pri generacii rekomendaciy. Poprobuyte pozze.", "main")
    ELSE recommendations_response(w, user_id,
             recommend_courses(course_rows,
                               [i \in 1..Len(user[1].interests) |->
                                   [interest |-> user[1].interests[i], weight |-> 1000]],
                               user[1].preferred_program, 5, DEFAULT_MIN_SCORE))

\* preferred_program of handle_profile_input
profile_program(text_lower) ==
    IF Contains(text_lower, "ai-produkt") \/ Contains(text_lower, "produkt")
    THEN "AI_Product"
    ELSE IF Contains(text_lower, "iskusstvennyy intellekt")
            \/ Contains(text_lower, "issledovan")
    THEN "AI"
    ELSE None

\* the names of the interests of a dict, in its order
interest_names(interests) == [i \in 1..Len(interests) |-> interests[i].interest]

\* profile_info of handle_profile_input
profile_info(analysis, interests, preferred_program) ==
    "Profilj obnovlen!\n"
    \o "Interesy: "
    \o (IF interests # <<>> THEN JoinWith(", ", interest_names(interests))
        ELSE "Ne opredeleny")
    \o "\nUrovenj opyta: " \o analysis.experience_level
    \o (IF preferred_program = None THEN ""
        ELSE "\nPredpocitaemaa programma: "
             \o (IF preferred_program = "AI_Product" THEN "AI-produkty"
                 ELSE "Iskusstvennyy intellekt"))
    \o "\n\n"

\* handle_profile_input after the analysis: the update, the pop of the state,
\* the recommendations for the row read back
profile_stored(w, user_id, analysis, interests, preferred_program, course_rows) ==
    LET updated == [w EXCEPT !.users = update_user_preferences(
                                          w.users, user_id, analysis,
                                          interest_names(interests), preferred_program),
                             !.user_states[user_id] = None]
        r == generate_recommendations(updated, user_id,
                                      get_user_by_telegram_id(updated.users, user_id),
                                      course_rows)
    IN [r EXCEPT !.resp.text = profile_info(analysis, interests, preferred_program) \o @]

\* BotHandler.handle_profile_input
handle_profile_input(w, user_id, profile_text, course_rows) ==
    profile_stored(w, user_id, analyze_user_background(profile_text),
                   extract_interests_from_text(profile_text),
                   profile_program(StrLower(profile_text)), course_rows)

\* BotHandler.handle_recommend: the dialogue of the profile unless the user
\* has interests
handle_recommend(w, user_id, course_rows) ==
    IF get_user_by_telegram_id(w.users, user_id) = <<>>
       \/ get_user_by_telegram_id(w.users, user_id)[1].interests = <<>>
    THEN Handled(set_state(w, user_id, "setup_profile_for_recommendations"),
                 "Personaljnye rekomendacii kursov\n\nRasskazite o svoih interesah i opyte.",
                 "cancel")
    ELSE generate_recommendations(w, user_id, get_user_by_telegram_id(w.users, user_id),
                                  course_rows)

\* BotHandler.handle_courses: the dialogue of the choice of a program, if
\* there are programs
handle_courses(w, user_id, program_rows) ==
    IF program_rows = <<>>
    THEN Handled(w, "K sozaleniu, informacia o kursah vremenno nedostupna.", "main")
    ELSE Handled(set_state(w, user_id, "select_program_for_courses"),
                 "Vyberite programmu dla prosmotra kursov:", "programs")

\* BotHandler.handle_gpt_mode
handle_gpt_mode(w, user_id, g) ==
    IF ~gpt_available(g)
    THEN Handled(w, "GPT rezim vremenno nedostupen. Pozaluysta, poprobuyte pozze.", "main")
    ELSE Handled(set_state(w, user_id, "gpt_mode"), "Vy peresli v umnyy rezim!", "back")

\* BotHandler.handle_smart_mode
handle_smart_mode(w, user_id) ==
    Handled(set_state(w, user_id, "smart_mode"),
            "Vy peresli v lokaljnuu umnuu sistemu!", "back")

\* BotHandler.handle_program_comparison: comparison is what the API returned
handle_program_comparison(w, g, comparison) ==
    IF ~gpt_available(g) THEN Handled(w, "GPT rezim vremenno nedostupen.", "main")
    ELSE IF Truthy(comparison)
    THEN Handled(w, comparison \o "\n\nPodrobnoe sravnenie ot II-konsuljtanta", "main")
    ELSE Handled(w, "Osibka pri sravnenii programm", "main")

\* handler(user_id, username) of a command or of a quick question
run_handler(handler, w, user_id, g, course_rows, program_rows, comparison) ==
    CASE handler = "handle_recommend" -> handle_recommend(w, user_id, course_rows)
      [] handler = "handle_courses" -> handle_courses(w, user_id, program_rows)
      [] handler = "handle_profile" ->
             Handled(set_state(w, user_id, "update_profile"), "Nastroyka profila", "cancel")
      [] handler = "handle_gpt_mode" -> handle_gpt_mode(w, user_id, g)
      [] handler = "handle_smart_mode" -> handle_smart_mode(w, user_id)
      [] handler = "handle_program_comparison" -> handle_program_comparison(w, g, comparison)
      [] handler = "handle_ask_question_mode" -> Handled(w, "Zadayte svoy vopros", "back")
      [] OTHER -> Handled(w, handler, "main")

\* BotHandler.handle_command
handle_command(w, user_id, g, course_rows, program_rows, comparison, command) ==
    IF command \in DOMAIN command_handlers
    THEN run_handler(command_handlers[command], w, user_id, g, course_rows, program_rows,
                     comparison)
    ELSE Handled(w, "Neizvestnaa komanda: " \o command, "main")

\* BotHandler.handle_gpt_question: the answer of generate_smart_answer with a
\* note; an answer of None raises and the except clause answers
handle_gpt_question(w, g, gpt_result) ==
    IF ~gpt_available(g) THEN Handled(w, "GPT rezim vremenno nedostupen.", "main")
    ELSE IF gpt_result.answer = None THEN Handled(w, "Proizosla osibka. Poprobuyte pozze.", "main")
    ELSE Handled(w, gpt_result.answer \o "\n\nUmnyy otvet na osnove bazy znaniy ITMO", "gpt")

\* BotHandler.handle_smart_question
handle_smart_question(w, smart_result) ==
    IF smart_result.answer = None THEN Handled(w, "Proizosla osibka. Poprobuyte pozze.", "main")
    ELSE Handled(w, smart_result.answer \o "\n\nLokaljnyy umnyy analiz ITMO", "smart")

\* BotHandler.handle_program_selection_for_courses: every branch pops the
\* state; the list of the courses is left out
handle_program_selection_for_courses(w, user_id, message) ==
    IF ~Contains(message, "Iskusstvennyy intellekt") /\ ~Contains(message, "AI-produkty")
    THEN Handled(pop_state(w, user_id), "Nevernyy vybor programmy.", "main")
    ELSE Handled(pop_state(w, user_id), "Kursy programmy", "main")

\* BotHandler.handle_state_message: answers are the responses of
\* handle_question, generate_smart_answer of the GPT and of the smart system
\* and get_program_comparison to the message
handle_state_message(w, user_id, g, course_rows, message, answers) ==
    LET state == w.user_states[user_id]
    IN IF message = CancelMessage \/ message = BackMessage
       THEN Handled(pop_state(w, user_id), "handle_start", "main")
       ELSE IF state \in {"setup_profile_for_recommendations", "update_profile"}
       THEN handle_profile_input(w, user_id, message, course_rows)
       ELSE IF state = "select_program_for_courses"
       THEN handle_program_selection_for_courses(w, user_id, message)
       ELSE IF state = "gpt_mode" THEN handle_gpt_question(w, g, answers.gpt)
       ELSE IF state = "smart_mode" THEN handle_smart_question(w, answers.smart)
       ELSE IF state = "program_comparison"
       THEN handle_program_comparison(pop_state(w, user_id), g, answers.comparison)
       ELSE [w |-> pop_state(w, user_id), resp |-> answers.question]

\* a process_message that consults the dialogue of the user first
dispatch_state_first(w, user_id, g, course_rows, program_rows, message, answers) ==
    IF w.user_states[user_id] # None
    THEN handle_state_message(w, user_id, g, course_rows, message, answers)
    ELSE IF StartsWith(message, "/")
    THEN handle_command(w, user_id, g, course_rows, program_rows, answers.comparison,
                        message)
    ELSE IF message \in DOMAIN quick_questions
    THEN run_handler(quick_questions[message], w, user_id, g, course_rows, program_rows,
                     answers.comparison)
    ELSE [w |-> w, resp |-> answers.question]

\* process_message after message.strip() and the insert of a user who is
\* not stored: commands, then quick questions, then the dialogue, then the
\* question
dispatch(w, user_id, g, course_rows, program_rows, message, answers) ==
    IF StartsWith(message, "/")
    THEN handle_command(w, user_id, g, course_rows, program_rows, answers.comparison,
                        message)
    ELSE IF message \in DOMAIN quick_questions
    THEN run_handler(quick_questions[message], w, user_id, g, course_rows, program_rows,
                     answers.comparison)
    ELSE IF w.user_states[user_id] # None
    THEN handle_state_message(w, user_id, g, course_rows, message, answers)
    ELSE [w |-> w, resp |-> answers.question]

\* the users table once process_message has stored a user it did not find
with_user(w, user_id, username) ==
    IF get_user_by_telegram_id(w.users, user_id) # <<>> THEN w
    ELSE [w EXCEPT !.users = insert_user(w.users, user_id, username)]

\* BotHandler.process_message for a message that is a str: an exception of
\* a handler is answered by the except clause, what was stored before stays
process_user_message(w, user_id, username, g, course_rows, program_rows, message, answers) ==
    LET r == dispatch(with_user(w, user_id, username), user_id, g, course_rows,
                      program_rows, StrStrip(message), answers)
    IN [r EXCEPT !.resp = message_try_except(@)]

-----------------------------------------------------------------------------
(* Inputs of the model *)

\* the QAProcessor instances of one process: BotHandler.qa_processor and
\* SmartQAProcessor.qa_processor, built over the same DatabaseManager
Procs == {"bot", "smart"}

\* question/answer pairs a caller stores; "Eto god?" consists of stop-words
\* only, "KURSY!" is preprocessed to the same text as "Kursy?"
CorpusInputs ==
    {[question |-> "Kursy?", answer |-> "Spisok kursov", category |-> "general"],
     [question |-> "Cena kursy?", answer |-> "Besplatno", category |-> "admission"],
     [question |-> "Eto god?", answer |-> "2 goda", category |-> "general"],
     [question |-> "Programma, cena, obucenie", answer |-> "Sm. sayt", category |-> "programs"],
     [question |-> "KURSY!", answer |-> "Sm. raspisanie", category |-> "courses"]}

\* the pairs stored while the bot runs; the last has no question
QAInputs ==
    {qa \in CorpusInputs : qa.question \in {"Kursy?", "Eto god?"}}
    \cup {[question |-> None, answer |-> "Pusto", category |-> "general"]}

\* texts a user asks
QueryTexts ==
    {"kursy", "KURSY cena", "Cena kursy?", "Eto god?", "obucenie", "cena", "xyz", "eto",
     "A?", "", None}

\* the texts asked while the bot runs
SeqQueryTexts == {"kursy", "Cena kursy?", "eto", None}

\* top_k of get_related_questions: none, and the 2 BotHandler.handle_question asks for
SeqTopKs == {0, 2}

TopKs == 0..MaxTopK

\* rows of the courses table; the description of the last is NULL
CourseRows ==
    {[name |-> "Computer Vision", description |-> "Obrabotka izobrazeniy",
      tags |-> <<"Computer Vision", "Machine Learning">>, is_mandatory |-> FALSE,
      program_id |-> 1],
     [name |-> "Machine Learning", description |-> "", tags |-> <<"ML">>,
      is_mandatory |-> TRUE, program_id |-> 1],
     [name |-> "Praktikum", description |-> "", tags |-> <<"Python">>,
      is_mandatory |-> FALSE, program_id |-> 2],
     [name |-> "Filosofia", description |-> "", tags |-> <<>>,
      is_mandatory |-> TRUE, program_id |-> 2],
     [name |-> "Istoria", description |-> None, tags |-> <<>>,
      is_mandatory |-> FALSE, program_id |-> 1]}

\* the catalogs a call is made over
Catalogs == UNION {[1..n -> CourseRows] : n \in 0..MaxCatalog}

\* course dicts a caller of calculate_course_score builds itself, with the
\* key 'program'
DirectCourses ==
    {[id |-> 1, name |-> "Computer Vision", description |-> "",
      tags |-> <<"Computer Vision">>, is_mandatory |-> FALSE, program_id |-> 1,
      program_name |-> "AI", program |-> "AI"],
     [id |-> 2, name |-> "Filosofia", description |-> "", tags |-> <<>>,
      is_mandatory |-> TRUE, program_id |-> 1, program_name |-> "AI",
      program |-> "AI"],
     [id |-> 3, name |-> "Seminar", description |-> "", tags |-> <<"Computer Vision">>,
      is_mandatory |-> FALSE, program_id |-> 1, program_name |-> "AI",
      program |-> "AI"]}

\* user_interests: the items of the dict, weights in thousandths
InterestInputs ==
    {<<>>,
     <<[interest |-> "computer_vision", weight |-> 1000]>>,
     <<[interest |-> "machine_learning", weight |-> 1000],
       [interest |-> "computer_vision", weight |-> 1000]>>,
     <<[interest |-> "python", weight |-> 500]>>,
     <<[interest |-> "robotics", weight |-> 100]>>}

ProgramInputs == {None, "AI", "AI_Product"}

MinScores == {0, DEFAULT_MIN_SCORE, 500}

\* texts a user describes their interests with
InterestTexts == {None, "", "Lublu Python i computer vision", "privet"}

\* free-text questions a user sends to the bot
BotQuestions == {"kursy", "Kursy python", "ekzamen", "cena", "xyz"}

\* messages process_message receives: the questions, one with blanks around
\* it, and None
BotMessages == BotQuestions \cup {" kursy ", None}

\* the external GPT mode switched off, no API key in the environment
NoGpt == [enable_gpt_mode |-> FALSE, keys |-> {}]

\* the settings a BotHandler is built under
GptConfigs ==
    {NoGpt,
     [enable_gpt_mode |-> TRUE, keys |-> {}],
     [enable_gpt_mode |-> TRUE, keys |-> {"PROXYAPI_KEY"}],
     [enable_gpt_mode |-> TRUE, keys |-> {"GROQ_API_KEY", "TOGETHER_API_KEY"}]}

\* the APIs try_free_apis calls
TriedApis == {"ProxyAPI", "GPT4Free", "Groq", "Together"}

\* what the APIs reply during one call: nothing at all, empty texts, or the
\* text of one of them
ApiReplies ==
    {[api \in TriedApis |-> None], [api \in TriedApis |-> ""]}
    \cup {[api \in TriedApis |-> IF api = a THEN "Otvet GPT" ELSE None] :
              a \in {"ProxyAPI", "GPT4Free", "Groq"}}

\* the questions stored when the handler is built
BotCorpusInputs == {qa \in CorpusInputs : qa.question \in {"Kursy?", "Cena kursy?"}}

BotCorpora == UNION {[1..n -> BotCorpusInputs] : n \in 0..MaxCorpus}

\* the courses tables the handler is built over
BotCatalogs == {<<>>} \cup {<<row>> : row \in {r \in CourseRows : r.name = "Praktikum"}}

\* texts a user describes their background with
BackgroundTexts ==
    {None, "", "Rabotau na Python i SQL, senior", "Izucau java", "privet"}

-----------------------------------------------------------------------------
(* The sequential behaviour: every public call runs to completion *)

Idle == [text |-> None, row |-> EmptyRow, idx |-> 0, sim |-> 0, allowed |-> {}]
NoRec == [op |-> "none"]

Init ==
    /\ nltk_ok = TRUE
    /\ store = <<>>
    /\ procs = [p \in Procs |-> QAProcessor_init(get_all_qa_pairs(store), nltk_ok)]
    /\ last = [op |-> "init"]
    /\ rpc = "idle"
    /\ qpc = "idle"
    /\ qtmp = Idle
    /\ old_index = procs["bot"]
    /\ courses = <<>>
    /\ rec = NoRec
    /\ gpt = NoGpt
    /\ programs = NoPrograms
    /\ users = NoUsers
    /\ user_states = NoStates
    /\ saved = <<>>

\* a new QAProcessor(db) replaces instance p
Construct(p) ==
    /\ procs' = [procs EXCEPT ![p] = QAProcessor_init(get_all_qa_pairs(store), nltk_ok)]
    /\ last' = [op |-> "construct", proc |-> p]
    /\ UNCHANGED <<nltk_ok, store, rpc, qpc, qtmp, old_index, courses, rec, gpt, programs, users, user_states, saved>>

\* another component stores a pair through the DatabaseManager
\* (populate_sample_qa_data does)
InsertQaPair(qa) ==
    /\ Len(store) < MaxStore
    /\ LET ins == insert_qa_pair(store, qa.question, qa.answer, qa.category, {})
       IN /\ store' = ins.rows
          /\ last' = [op |-> "insert_qa_pair", question |-> qa.question, raised |-> ins.raised]
    /\ UNCHANGED <<nltk_ok, procs, rpc, qpc, qtmp, old_index, courses, rec, gpt, programs, users, user_states, saved>>

\* p.add_qa_pair(question, answer, category)
AddQaPair(p, qa) ==
    /\ Len(store) < MaxStore
    /\ LET r == add_qa_pair(procs[p], store, qa.question, qa.answer, qa.category, nltk_ok)
       IN /\ store' = r.rows
          /\ procs' = [procs EXCEPT ![p] = r.proc]
          /\ last' = [op |-> "add_qa_pair", proc |-> p, question |-> qa.question,
                      ret |-> r.ret]
    /\ UNCHANGED <<nltk_ok, rpc, qpc, qtmp, old_index, courses, rec, gpt, programs, users, user_states, saved>>

\* a get_answer that ends with reload_data(), as add_qa_pair does
GetAnswerReloading(p, text) ==
    /\ last' = [op |-> "get_answer", proc |-> p, text |-> text,
                ret |-> get_answer(procs[p], text, nltk_ok)]
    /\ procs' = [procs EXCEPT ![p] = reload_data(procs[p], get_all_qa_pairs(store), nltk_ok)]
    /\ UNCHANGED <<nltk_ok, store, rpc, qpc, qtmp, old_index, courses, rec, gpt, programs, users, user_states, saved>>

\* p.get_answer(text)
GetAnswer(p, text) ==
    /\ last' = [op |-> "get_answer", proc |-> p, text |-> text,
                ret |-> get_answer(procs[p], text, nltk_ok)]
    /\ UNCHANGED <<nltk_ok, store, procs, rpc, qpc, qtmp, old_index, courses, rec, gpt, programs, users, user_states, saved>>

\* p.get_related_questions(text, top_k)
GetRelated(p, text, top_k) ==
    /\ last' = [op |-> "get_related_questions", proc |-> p, text |-> text,
                top_k |-> top_k,
                ret |-> get_related_questions(procs[p], text, top_k, nltk_ok)]
    /\ UNCHANGED <<nltk_ok, store, procs, rpc, qpc, qtmp, old_index, courses, rec, gpt, programs, users, user_states, saved>>

Next ==
    \/ \E p \in Procs : Construct(p)
    \/ \E qa \in QAInputs : InsertQaPair(qa)
    \/ \E p \in Procs, qa \in QAInputs : AddQaPair(p, qa)
    \/ \E p \in Procs, text \in SeqQueryTexts : GetAnswer(p, text)
    \/ \E p \in Procs, text \in SeqQueryTexts, top_k \in SeqTopKs : GetRelated(p, text, top_k)

Spec == Init /\ [][Next]_vars

-----------------------------------------------------------------------------
(* One query over a drawn corpus: the inputs are a corpus, a text and top_k *)

RECURSIVE StoreOf(_, _)
\* the qa_pairs table after storing the pairs of a sequence, in order
StoreOf(inputs, ok) ==
    IF inputs = <<>> THEN <<>>
    ELSE LET qa == inputs[Len(inputs)]
         IN insert_qa_pair(StoreOf(SubSeq(inputs, 1, Len(inputs) - 1), ok), qa.question,
                           qa.answer, qa.category, extract_keywords(qa.question, ok)).rows

Corpora == UNION {[1..n -> CorpusInputs] : n \in 0..MaxCorpus}

InitQuery ==
    /\ nltk_ok \in BOOLEAN
    /\ \E c \in Corpora : store = StoreOf(c, nltk_ok)
    /\ procs = [p \in Procs |-> QAProcessor_init(get_all_qa_pairs(store), nltk_ok)]
    /\ last = [op |-> "init"]
    /\ rpc = "idle"
    /\ qpc = "idle"
    /\ qtmp = Idle
    /\ old_index = procs["bot"]
    /\ courses = <<>>
    /\ rec = NoRec
    /\ gpt = NoGpt
    /\ programs = NoPrograms
    /\ users = NoUsers
    /\ user_states = NoStates
    /\ saved = <<>>

AnswerOnce(text) == last.op = "init" /\ GetAnswer("bot", text)

RelatedOnce(text, top_k) == last.op = "init" /\ GetRelated("bot", text, top_k)

NextQuery ==
    \/ \E text \in QueryTexts : AnswerOnce(text)
    \/ \E text \in QueryTexts, top_k \in TopKs : RelatedOnce(text, top_k)

SpecQuery == InitQuery /\ [][NextQuery]_vars

-----------------------------------------------------------------------------
(* add_qa_pair and get_answer of one processor running in two threads.  A   *)
(* step is the code between two accesses to the attributes of the          *)
(* processor; neither method takes a lock.                                 *)

ConcProc == "bot"

\* the pairs the writing thread adds
ConcInputs == {qa \in CorpusInputs : qa.question \in {"Cena kursy?", "Eto god?"}}

\* the texts the reading thread asks
ConcQueryTexts == {"kursy", "cena", "eto"}

\* the corpora the two threads start from: empty, or one question
ConcCorpora ==
    {<<>>} \cup {<<qa>> : qa \in {c \in CorpusInputs : c.question \in {"Kursy?", "Eto god?"}}}

\* the indexes a query that reads now may be answered from: the index built
\* last, and while a rebuild runs also the index it is building
Consistent ==
    IF rpc = "idle" THEN {procs[ConcProc]}
    ELSE {old_index, reload_data(old_index, get_all_qa_pairs(store), nltk_ok)}

InitConc ==
    /\ nltk_ok = TRUE
    /\ \E c \in ConcCorpora : store = StoreOf(c, nltk_ok)
    /\ procs = [p \in Procs |-> QAProcessor_init(get_all_qa_pairs(store), nltk_ok)]
    /\ last = [op |-> "init"]
    /\ rpc = "idle"
    /\ qpc = "idle"
    /\ qtmp = Idle
    /\ old_index = procs[ConcProc]
    /\ courses = <<>>
    /\ rec = NoRec
    /\ gpt = NoGpt
    /\ programs = NoPrograms
    /\ users = NoUsers
    /\ user_states = NoStates
    /\ saved = <<>>

\* add_qa_pair up to the return of insert_qa_pair
WInsert(qa) ==
    /\ rpc = "idle"
    /\ Len(store) < MaxConcRows
    /\ LET ins == insert_qa_pair(store, qa.question, qa.answer, qa.category,
                                 extract_keywords(qa.question, nltk_ok))
       IN /\ store' = ins.rows
          /\ rpc' = IF ins.raised THEN "idle" ELSE "load"
    /\ old_index' = procs[ConcProc]
    /\ UNCHANGED <<nltk_ok, procs, last, qpc, qtmp, courses, rec, gpt, programs, users, user_states, saved>>

\* _reload_data: self.qa_pairs = self.db_manager.get_all_qa_pairs()
WLoad ==
    /\ rpc = "load"
    /\ procs' = [procs EXCEPT ![ConcProc].qa_pairs = get_all_qa_pairs(store)]
    /\ rpc' = "process"
    /\ UNCHANGED <<nltk_ok, store, last, qpc, qtmp, old_index, courses, rec, gpt, programs, users, user_states, saved>>

\* _reload_data: self.processed_questions = [...]
WProcess ==
    /\ rpc = "process"
    /\ LET pq == ProcessedQuestions(procs[ConcProc].qa_pairs, nltk_ok)
       IN /\ procs' = [procs EXCEPT ![ConcProc].processed_questions = pq]
          /\ rpc' = IF pq # <<>> THEN "fit" ELSE "idle"
    /\ UNCHANGED <<nltk_ok, store, last, qpc, qtmp, old_index, courses, rec, gpt, programs, users, user_states, saved>>

\* _fit_vectorizer: fit_transform fits self.vectorizer in place
WFit ==
    /\ rpc = "fit"
    /\ procs' = [procs EXCEPT ![ConcProc].vectorizer =
                     fit_vectorizer(@, procs[ConcProc].processed_questions).vectorizer]
    /\ rpc' = "assign"
    /\ UNCHANGED <<nltk_ok, store, last, qpc, qtmp, old_index, courses, rec, gpt, programs, users, user_states, saved>>

\* _reload_data: self.question_vectors = what _fit_vectorizer returned
WAssign ==
    /\ rpc = "assign"
    /\ procs' = [procs EXCEPT ![ConcProc].question_vectors =
                     fit_vectorizer(procs[ConcProc].vectorizer,
                                    procs[ConcProc].processed_questions).vectors]
    /\ rpc' = "idle"
    /\ UNCHANGED <<nltk_ok, store, last, qpc, qtmp, old_index, courses, rec, gpt, programs, users, user_states, saved>>

\* get_answer returns: r is what find_similar_question came to
QReturn(text, r, failed) ==
    /\ last' = [op |-> "get_answer", proc |-> ConcProc, text |-> text,
                ret |-> AnswerOf(try_except(r)), failed |-> failed,
                allowed |-> qtmp.allowed \cup Consistent]
    /\ qpc' = "idle"
    /\ qtmp' = Idle

\* find_similar_question: the test of self.question_vectors
QStart(text) ==
    /\ qpc = "idle"
    /\ IF procs[ConcProc].question_vectors.kind = "none"
       THEN /\ last' = [op |-> "get_answer", proc |-> ConcProc, text |-> text,
                        ret |-> AnswerOf(NotFound(0)), failed |-> FALSE,
                        allowed |-> Consistent]
            /\ UNCHANGED <<qpc, qtmp>>
       ELSE /\ qpc' = "transform"
            /\ qtmp' = [Idle EXCEPT !.text = text, !.allowed = Consistent]
            /\ UNCHANGED last
    /\ UNCHANGED <<nltk_ok, store, procs, rpc, old_index, courses, rec, gpt, programs, users, user_states, saved>>

\* find_similar_question: self.vectorizer.transform([processed_question])
QTransform ==
    /\ qpc = "transform"
    /\ LET t == transform(procs[ConcProc].vectorizer, preprocess_text(qtmp.text, nltk_ok))
       IN IF t.raised
          THEN QReturn(qtmp.text, Raised, TRUE)
          ELSE /\ qpc' = "compare"
               /\ qtmp' = [qtmp EXCEPT !.row = t.row, !.allowed = @ \cup Consistent]
               /\ UNCHANGED last
    /\ UNCHANGED <<nltk_ok, store, procs, rpc, old_index, courses, rec, gpt, programs, users, user_states, saved>>

\* find_similar_question: cosine_similarity(user_vector, self.question_vectors),
\* argmax and the comparison with MIN_RELEVANCE_SCORE
QCompare ==
    /\ qpc = "compare"
    /\ LET qv == procs[ConcProc].question_vectors
           c == IF qv.kind = "matrix" THEN cosine_similarity(qtmp.row, qv.rows)
                ELSE [raised |-> TRUE, sims |-> <<>>]
       IN IF c.raised
          THEN QReturn(qtmp.text, Raised, TRUE)
          ELSE LET best_match_idx == argmax(c.sims)
                   best_similarity == c.sims[best_match_idx]
               IN IF best_similarity >= MIN_RELEVANCE_SCORE
                  THEN /\ qpc' = "pick"
                       /\ qtmp' = [qtmp EXCEPT !.idx = best_match_idx,
                                               !.sim = best_similarity,
                                               !.allowed = @ \cup Consistent]
                       /\ UNCHANGED last
                  ELSE QReturn(qtmp.text, NotFound(best_similarity), FALSE)
    /\ UNCHANGED <<nltk_ok, store, procs, rpc, old_index, courses, rec, gpt, programs, users, user_states, saved>>

\* find_similar_question: return self.qa_pairs[best_match_idx], best_similarity
QPick ==
    /\ qpc = "pick"
    /\ IF qtmp.idx > Len(procs[ConcProc].qa_pairs)
       THEN QReturn(qtmp.text, Raised, TRUE)
       ELSE QReturn(qtmp.text, Found(procs[ConcProc].qa_pairs[qtmp.idx], qtmp.sim), FALSE)
    /\ UNCHANGED <<nltk_ok, store, procs, rpc, old_index, courses, rec, gpt, programs, users, user_states, saved>>

NextConc ==
    \/ \E qa \in ConcInputs : WInsert(qa)
    \/ WLoad
    \/ WProcess
    \/ WFit
    \/ WAssign
    \/ \E text \in ConcQueryTexts : QStart(text)
    \/ QTransform
    \/ QCompare
    \/ QPick

SpecConc == InitConc /\ [][NextConc]_vars

-----------------------------------------------------------------------------
(* One call of CourseRecommender over a drawn catalog *)

InitRec ==
    /\ nltk_ok = TRUE
    /\ store = <<>>
    /\ procs = [p \in Procs |-> QAProcessor_init(get_all_qa_pairs(store), nltk_ok)]
    /\ last = [op |-> "init"]
    /\ rpc = "idle"
    /\ qpc = "idle"
    /\ qtmp = Idle
    /\ old_index = procs[ConcProc]
    /\ courses \in Catalogs
    /\ rec = NoRec
    /\ gpt = NoGpt
    /\ programs = NoPrograms
    /\ users = NoUsers
    /\ user_states = NoStates
    /\ saved = <<>>

RecUnchanged ==
    UNCHANGED <<nltk_ok, store, procs, last, rpc, qpc, qtmp, old_index, courses, gpt, programs, users, user_states, saved>>

\* the course is a row of the catalog as the gateway returns it, or a dict of
\* the caller
CalculateCourseScore(user_interests, preferred_program) ==
    /\ rec.op = "none"
    /\ \E course \in DirectCourses
                       \cup {get_all_courses(courses)[i] : i \in 1..Len(courses)} :
           rec' = [op |-> "calculate_course_score", course |-> course,
                   user_interests |-> user_interests,
                   preferred_program |-> preferred_program,
                   ret |-> calculate_course_score(course, user_interests,
                                                  preferred_program)]
    /\ RecUnchanged

RecommendCourses(user_interests, preferred_program, top_k, min_score) ==
    /\ rec.op = "none"
    /\ rec' = [op |-> "recommend_courses", user_interests |-> user_interests,
               preferred_program |-> preferred_program, top_k |-> top_k,
               min_score |-> min_score,
               ret |-> recommend_courses(courses, user_interests, preferred_program,
                                         top_k, min_score)]
    /\ RecUnchanged

GetGeneralRecommendations(preferred_program, top_k) ==
    /\ rec.op = "none"
    /\ rec' = [op |-> "get_general_recommendations",
               preferred_program |-> preferred_program, top_k |-> top_k,
               ret |-> get_general_recommendations(courses, preferred_program, top_k)]
    /\ RecUnchanged

RecommendCoursesFromText(user_text, preferred_program, top_k) ==
    /\ rec.op = "none"
    /\ rec' = [op |-> "recommend_courses_from_text", user_text |-> user_text,
               preferred_program |-> preferred_program, top_k |-> top_k,
               ret |-> recommend_courses_from_text(courses, user_text,
                                                   preferred_program, top_k)]
    /\ RecUnchanged

ExtractInterestsFromText(text) ==
    /\ rec.op = "none"
    /\ rec' = [op |-> "extract_interests_from_text", text |-> text,
               ret |-> extract_interests_from_text(text)]
    /\ RecUnchanged

AnalyzeUserBackground(background_text) ==
    /\ rec.op = "none"
    /\ rec' = [op |-> "analyze_user_background", background_text |-> background_text,
               ret |-> analyze_user_background(background_text)]
    /\ RecUnchanged

NextRec ==
    \/ \E ui \in InterestInputs, pp \in ProgramInputs : CalculateCourseScore(ui, pp)
    \/ \E ui \in InterestInputs, pp \in ProgramInputs, top_k \in TopKs, ms \in MinScores :
          RecommendCourses(ui, pp, top_k, ms)
    \/ \E pp \in ProgramInputs, top_k \in TopKs : GetGeneralRecommendations(pp, top_k)
    \/ \E text \in InterestTexts, pp \in ProgramInputs, top_k \in TopKs :
          RecommendCoursesFromText(text, pp, top_k)
    \/ \E text \in BackgroundTexts : AnalyzeUserBackground(text)
    \/ \E text \in InterestTexts \cup BackgroundTexts : ExtractInterestsFromText(text)

SpecRec == InitRec /\ [][NextRec]_vars

-----------------------------------------------------------------------------
(* One free-text message to a BotHandler built over a drawn corpus *)

InitBot ==
    /\ nltk_ok = TRUE
    /\ \E c \in BotCorpora : store = StoreOf(c, nltk_ok)
    /\ procs = [p \in Procs |-> QAProcessor_init(get_all_qa_pairs(store), nltk_ok)]
    /\ last = [op |-> "init"]
    /\ rpc = "idle"
    /\ qpc = "idle"
    /\ qtmp = Idle
    /\ old_index = procs[ConcProc]
    /\ courses \in BotCatalogs
    /\ rec = NoRec
    /\ gpt \in GptConfigs
    /\ programs = NoPrograms
    /\ users = NoUsers
    /\ user_states = NoStates
    /\ saved = <<>>

BotUnchanged ==
    UNCHANGED <<nltk_ok, store, procs, rpc, qpc, qtmp, old_index, courses, rec, gpt, programs, users, user_states, saved>>

\* the user who writes to the bot
BotUser == CHOOSE u \in TelegramIds : TRUE

\* the QAProcessor FreeGPTIntegration builds for itself in BotHandler.__init__
GptProc == QAProcessor_init(get_all_qa_pairs(store), nltk_ok)

\* BotHandler.handle_question(user_id, username, question)
HandleQuestion(question, reply) ==
    /\ last.op = "init"
    /\ last' = [op |-> "handle_question", question |-> question, reply |-> reply,
                ret |-> handle_question(procs["bot"], GptProc, procs["smart"],
                                        get_all_courses(courses), gpt, reply, question,
                                        nltk_ok)]
    /\ BotUnchanged

\* BotHandler.process_message(user_id, username, message)
ProcessMessage(message, reply) ==
    /\ last.op = "init"
    /\ last' = [op |-> "process_message", question |-> message, reply |-> reply,
                ret |-> process_message(procs["bot"], GptProc, procs["smart"],
                                        get_all_courses(courses), gpt, reply, message,
                                        nltk_ok)]
    /\ users' = IF message = None THEN users
                ELSE with_user([users |-> users, user_states |-> user_states,
                                saved |-> saved], BotUser, "anna").users
    /\ UNCHANGED <<nltk_ok, store, procs, rpc, qpc, qtmp, old_index, courses, rec, gpt,
                   programs, user_states, saved>>

NextBot ==
    \/ \E question \in BotQuestions, reply \in ApiReplies : HandleQuestion(question, reply)
    \/ \E message \in BotMessages, reply \in ApiReplies : ProcessMessage(message, reply)

SpecBot == InitBot /\ [][NextBot]_vars

-----------------------------------------------------------------------------
(* The messages of one user to a running bot *)

\* what the user sends: commands, buttons, the two cancellations, texts
DialogMessages ==
    {"/start", "/help", "/smart", "/gpt", "/profile", "/recommend",
     "<- Glavnoe menu", "[smart] Umnyy otvet", CancelMessage, BackMessage,
     "Lublu Python", "privet", "Hocu produkt"}

\* the replies of the APIs during one message
DialogReplies == {r \in ApiReplies : r["ProxyAPI"] = "Otvet GPT"}

\* the catalog of the running bot
DialogCatalog ==
    <<CHOOSE r \in CourseRows : r.name = "Computer Vision",
      CHOOSE r \in CourseRows : r.name = "Praktikum">>

InitDialog ==
    /\ nltk_ok = TRUE
    /\ store = StoreOf(<<CHOOSE qa \in CorpusInputs : qa.question = "Kursy?">>, nltk_ok)
    /\ procs = [p \in Procs |-> QAProcessor_init(get_all_qa_pairs(store), nltk_ok)]
    /\ last = [op |-> "init"]
    /\ rpc = "idle"
    /\ qpc = "idle"
    /\ qtmp = Idle
    /\ old_index = procs[ConcProc]
    /\ courses = DialogCatalog
    /\ rec = NoRec
    /\ gpt \in {NoGpt, [enable_gpt_mode |-> TRUE, keys |-> {"PROXYAPI_KEY"}]}
    /\ programs = insert_program(NoPrograms, <<>>, [name |-> "AI", courses |-> <<>>]).table
    /\ users = NoUsers
    /\ user_states = NoStates
    /\ saved = <<>>

\* what handle_question, the two generate_smart_answer and
\* get_program_comparison return for a message
AnswersTo(question, reply) ==
    [question |-> handle_question(procs["bot"], GptProc, procs["smart"],
                                  get_all_courses(courses), gpt, reply, question, nltk_ok),
     gpt |-> FreeGPT_generate_smart_answer(GptProc, gpt.keys, reply, question, nltk_ok),
     smart |-> SmartQA_generate_smart_answer(procs["smart"], get_all_courses(courses),
                                             question, nltk_ok),
     comparison |-> try_free_apis(gpt.keys, reply)]

\* bot.process_message(user_id, username, message)
SendMessage(user_id, message, reply) ==
    \E answers \in {AnswersTo(StrStrip(message), reply)} :
    \E r \in {process_user_message([users |-> users, user_states |-> user_states,
                                     saved |-> saved],
                                    user_id, "anna", gpt, courses, programs.rows, message,
                                    answers)} :
       /\ Len(r.w.saved) <= MaxSaved
       /\ users' = r.w.users
       /\ user_states' = r.w.user_states
       /\ saved' = r.w.saved
       /\ last' = [op |-> "process_message", user_id |-> user_id, message |-> message,
                   state |-> user_states[user_id], ret |-> r.resp]
       /\ UNCHANGED <<nltk_ok, store, procs, rpc, qpc, qtmp, old_index, courses, rec, gpt,
                      programs>>

NextDialog ==
    \E user_id \in TelegramIds, message \in DialogMessages, reply \in DialogReplies :
        SendMessage(user_id, message, reply)

SpecDialog == InitDialog /\ [][NextDialog]_vars

-----------------------------------------------------------------------------
(* The programs and courses tables under the inserts of the DatabaseManager *)

\* Course objects a caller stores
CourseInputs == {r \in CourseRows : r.name \in {"Machine Learning", "Praktikum"}}

\* Program objects a caller stores, with their courses
ProgramObjects ==
    {[name |-> "AI", courses |-> <<>>]}
    \cup {[name |-> ProgramNames[c.program_id], courses |-> <<c>>] : c \in CourseInputs}

\* the lists insert_programs_with_courses is called with
ProgramLists == UNION {[1..n -> ProgramObjects] : n \in 0..2}

RECURSIVE CoursesIn(_)
\* the number of courses of the programs of a list
CoursesIn(program_list) ==
    IF program_list = <<>> THEN 0
    ELSE Len(Head(program_list).courses) + CoursesIn(Tail(program_list))

InitDb ==
    /\ nltk_ok = TRUE
    /\ store = <<>>
    /\ procs = [p \in Procs |-> QAProcessor_init(get_all_qa_pairs(store), nltk_ok)]
    /\ last = [op |-> "init"]
    /\ rpc = "idle"
    /\ qpc = "idle"
    /\ qtmp = Idle
    /\ old_index = procs[ConcProc]
    /\ courses = <<>>
    /\ rec = NoRec
    /\ gpt = NoGpt
    /\ \E foreign_keys \in BOOLEAN : programs = EmptyPrograms(foreign_keys)
    /\ users = NoUsers
    /\ user_states = NoStates
    /\ saved = <<>>

DbUnchanged ==
    UNCHANGED <<nltk_ok, store, procs, rpc, qpc, qtmp, old_index, rec, gpt, users,
                user_states, saved>>

\* db.insert_program(program)
InsertProgram(program) ==
    /\ programs.seq < MaxPrograms
    /\ LET ins == insert_program(programs, courses, program)
       IN /\ programs' = ins.table
          /\ last' = [op |-> "insert_program", name |-> program.name,
                      raised |-> ins.raised, ret |-> ins.program_id]
    /\ UNCHANGED courses
    /\ DbUnchanged

\* db.insert_course(course, program_id)
InsertCourse(course, program_id) ==
    /\ Len(courses) < MaxCatalog
    /\ LET ins == insert_course(programs, courses, course, program_id)
       IN /\ courses' = ins.rows
          /\ last' = [op |-> "insert_course", name |-> course.name,
                      program_id |-> program_id, raised |-> ins.raised]
    /\ UNCHANGED programs
    /\ DbUnchanged

\* db.insert_programs_with_courses(program_list)
InsertProgramsWithCourses(program_list) ==
    /\ programs.seq + Len(program_list) <= MaxPrograms
    /\ Len(courses) + CoursesIn(program_list) <= MaxCatalog
    /\ LET ins == insert_programs_with_courses(programs, courses, program_list)
       IN /\ programs' = ins.table
          /\ courses' = ins.rows
          /\ last' = [op |-> "insert_programs_with_courses",
                      names |-> [i \in 1..Len(program_list) |-> program_list[i].name],
                      raised |-> ins.raised]
    /\ DbUnchanged

NextDb ==
    \/ \E program \in ProgramObjects : InsertProgram(program)
    \/ \E course \in CourseInputs, program_id \in 1..MaxPrograms :
           InsertCourse(course, program_id)
    \/ \E program_list \in ProgramLists : InsertProgramsWithCourses(program_list)

SpecDb == InitDb /\ [][NextDb]_vars

-----------------------------------------------------------------------------
(* Properties of the index and the queries *)

\* the largest similarity of a text to the questions of p's index; 0 without one
BestSimilarity(p, text, ok) ==
    IF p.question_vectors.kind # "matrix" THEN 0
    ELSE LET c == Similarities(p, text, ok)
         IN IF c.raised THEN 0
            ELSE CHOOSE m \in {c.sims[i] : i \in 1..Len(c.sims)} :
                     \A j \in 1..Len(c.sims) : c.sims[j] <= m

\* the first row of p's index with the largest similarity to a text
BestCandidate(p, text, ok) ==
    p.qa_pairs[argmax(Similarities(p, text, ok).sims)]

IsQuery == last.op \in {"get_answer", "get_related_questions"}

\* C1: a query is served from qa_pairs and vectors built from the corpus as it
\* is stored when the query runs, whoever inserted the last pair.
C1_QueriesUseCurrentCorpus ==
    IsQuery =>
        /\ procs[last.proc].qa_pairs = get_all_qa_pairs(store)
        /\ procs[last.proc].question_vectors
               = QAProcessor_init(get_all_qa_pairs(store), nltk_ok).question_vectors

HasVocabulary(p) == Vocabulary(p.processed_questions) # {}

C4_BelowMinRelevanceIsNoMatch ==
    (last.op = "get_answer"
     /\ BestSimilarity(procs[last.proc], last.text, nltk_ok) < MIN_RELEVANCE_SCORE)
        => last.ret = NO_MATCH

\* a query with a positive best similarity below the bound was answered
C4_Witness ==
    /\ last.op = "get_answer"
    /\ BestSimilarity(procs[last.proc], last.text, nltk_ok) \in 1..(MIN_RELEVANCE_SCORE - 1)
    /\ last.ret = NO_MATCH

\* C5: from MIN_RELEVANCE_SCORE on the best similarity s alone decides the
\* answer: confidence is s, matched_question is the best candidate's question,
\* the answer carries the "possibly you meant" line exactly below
\* SIMILARITY_THRESHOLD, and is_exact_match is True exactly above 0.9.
C5_TierBySimilarity ==
    LET p == procs[last.proc]
        s == BestSimilarity(p, last.text, nltk_ok)
        qa == BestCandidate(p, last.text, nltk_ok)
    IN (last.op = "get_answer" /\ s >= MIN_RELEVANCE_SCORE) =>
           /\ ~last.ret.raised
           /\ last.ret.confidence = s
           /\ last.ret.matched_question = qa.question
           /\ last.ret.answer = IF s < SIMILARITY_THRESHOLD
                                THEN PossiblyMeant(qa.question) \o qa.answer
                                ELSE qa.answer
           /\ last.ret.is_exact_match = (s > EXACT_MATCH_ABOVE)

\* a weak match was answered with the "possibly you meant" line
C5_Witness ==
    /\ last.op = "get_answer"
    /\ BestSimilarity(procs[last.proc], last.text, nltk_ok)
           \in MIN_RELEVANCE_SCORE..(SIMILARITY_THRESHOLD - 1)
    /\ last.ret.answer # BestCandidate(procs[last.proc], last.text, nltk_ok).answer
    /\ last.ret.confidence >= MIN_RELEVANCE_SCORE

\* C3: get_answer never raises; when the transform, the similarity
\* computation or the row look-up fails, the caller gets the NO_MATCH answer.
C3_FailureGivesNoMatch ==
    (last.op = "get_answer") =>
        /\ ~last.ret.raised
        /\ last.failed => last.ret = NO_MATCH

\* a get_answer whose similarity computation failed has returned
C3_Witness ==
    /\ last.op = "get_answer" /\ last.failed
    /\ last.ret = NO_MATCH

\* C9: a query that runs while the index is rebuilt is answered as the index
\* before the rebuild or as the index after it answers it.
C9_QueryReadsOneBuild ==
    (last.op = "get_answer") =>
        last.ret \in {get_answer(s, last.text, nltk_ok) : s \in last.allowed}

\* C10: a processor whose corpus is empty answers every get_answer with
\* NO_MATCH and every get_related_questions with an empty list, without raising.
C10_EmptyCorpusNeverFails ==
    (IsQuery /\ procs[last.proc].qa_pairs = <<>>) =>
        IF last.op = "get_answer" THEN last.ret = NO_MATCH
        ELSE last.ret = [raised |-> FALSE, related |-> <<>>]

\* a processor built over the empty store was asked a question
C10_Witness ==
    /\ last.op = "get_answer" /\ last.text = "kursy"
    /\ store = <<>> /\ procs[last.proc].qa_pairs = <<>>
    /\ last.ret = NO_MATCH

\* the scores of the items of a list of recommendations
ItemScores(ret) == {ret.items[i].score : i \in 1..Len(ret.items)}

IsListCall ==
    rec.op \in {"recommend_courses", "get_general_recommendations",
                "recommend_courses_from_text"}

\* C6: the score calculate_course_score returns lies in [0.0, 1.0], and so does
\* the score of every item recommend_courses, recommend_courses_from_text and
\* get_general_recommendations return.
C6_ScoreInUnitInterval ==
    /\ (rec.op = "calculate_course_score" /\ ~rec.ret.raised) => rec.ret.score \in 0..1000
    /\ (IsListCall /\ ~rec.ret.raised) => ItemScores(rec.ret) \subseteq 0..1000

\* two interests that each reach the full score were added up and cut to 1.0
C6_Witness ==
    /\ rec.op = "calculate_course_score"
    /\ Len(rec.user_interests) = 2
    /\ ~rec.ret.raised
    /\ rec.ret.score = 1000
    /\ score_interests(rec.course, rec.user_interests, rec.preferred_program).base_score > 1000

\* the courses of the catalog whose score reaches min_score
Qualifying(rows, user_interests, preferred_program, min_score) ==
    LET all_courses == get_all_courses(rows)
    IN {i \in 1..Len(all_courses) :
           calculate_course_score(all_courses[i], user_interests,
                                  preferred_program).score >= min_score}

\* C7: recommend_courses returns at most top_k items, each with a score of at
\* least min_score, and exactly top_k items when at least top_k courses of the
\* catalog score min_score or more.
C7_AtMostTopKAboveMinScore ==
    (rec.op = "recommend_courses" /\ ~rec.ret.raised) =>
        /\ Len(rec.ret.items) <= rec.top_k
        /\ \A s \in ItemScores(rec.ret) : s >= rec.min_score
        /\ Cardinality(Qualifying(courses, rec.user_interests, rec.preferred_program,
                                  rec.min_score)) >= rec.top_k
               => Len(rec.ret.items) = rec.top_k

\* more courses qualified than top_k and the list was cut to top_k
C7_Witness ==
    /\ rec.op = "recommend_courses" /\ ~rec.ret.raised
    /\ rec.top_k > 0 /\ rec.user_interests # <<>>
    /\ Cardinality(Qualifying(courses, rec.user_interests, rec.preferred_program,
                              rec.min_score)) > rec.top_k
    /\ Len(rec.ret.items) = rec.top_k

\* C8: recommend_courses with no interests returns the general
\* recommendations: every item has score 0.5 and the reason of a general
\* recommendation, and with top_k > 0 and no preferred program the list is
\* empty only over an empty catalog.
C8_NoInterestsGivesGeneral ==
    (rec.op = "recommend_courses" /\ rec.user_interests = <<>> /\ ~rec.ret.raised) =>
        /\ (rec.top_k > 0 /\ rec.preferred_program = None /\ rec.ret.items = <<>>)
               => (courses = <<>>)
        /\ \A i \in 1..Len(rec.ret.items) :
               /\ rec.ret.items[i].score = 500
               /\ rec.ret.items[i].reason = GeneralRecommendation

-----------------------------------------------------------------------------
(* Properties of degenerate inputs *)

\* what get_related_questions returns when it has nothing to show
NoRelated == [raised |-> FALSE, related |-> <<>>]

\* the text of the last query is None, empty, or nothing is left of it after
\* _preprocess_text
DegenerateQuery == preprocess_text(last.text, nltk_ok) = ""

\* C11: over a non-empty corpus a query that is None, empty or empty after
\* normalisation gets NO_MATCH (confidence 0.0) from get_answer and an empty
\* list from get_related_questions, and neither call raises.
C11_DegenerateQueryIsNoMatch ==
    (IsQuery /\ procs[last.proc].qa_pairs # <<>> /\ DegenerateQuery) =>
        IF last.op = "get_answer" THEN last.ret = NO_MATCH
        ELSE last.ret = NoRelated

\* get_related_questions was asked for rows with a None text over a fitted
\* index and returned the empty list
C11_Witness ==
    /\ last.op = "get_related_questions" /\ last.text = None /\ last.top_k > 0
    /\ procs[last.proc].question_vectors.kind = "matrix"
    /\ last.ret = NoRelated

\* C12: calculate_course_score, recommend_courses and analyze_user_background
\* return a result and never raise, whatever row of the courses table
\* (a NULL description included) and whatever text (None included) they get.
C12_RecommenderNeverRaises ==
    (rec.op \in {"calculate_course_score", "recommend_courses", "analyze_user_background"})
        => ~rec.ret.raised

-----------------------------------------------------------------------------
(* Properties of the bot *)

\* no external API gave an answer to the last message: the GPT mode is off, or
\* every reply is None or empty
NoGptAnswer == ~gpt_available(gpt) \/ \A api \in DOMAIN last.reply : ~Truthy(last.reply[api])

\* the response is the answer of the local smart system, or begins with the
\* answer of the basic matcher
FromLocalOrBasic(ret, question) ==
    \/ ret.keyboard = "smart" /\ EndsWith(ret.text, SmartNote)
    \/ /\ ret.keyboard \in {"smart", "main"}
       /\ StartsWith(ret.text, get_answer(procs["bot"], question, nltk_ok).answer)

\* C13: when the external GPT is switched off or no API gives an answer,
\* handle_question returns a response of the local smart system or of the
\* basic matcher and does not raise; process_message never raises, whatever
\* the APIs reply.
C13_DegradesWithoutGpt ==
    /\ (last.op = "process_message") => ~last.ret.raised
    /\ (last.op = "handle_question" /\ NoGptAnswer) =>
           /\ ~last.ret.raised
           /\ FromLocalOrBasic(last.ret, last.question)

\* the GPT mode was on, every API failed, and the local smart system answered
C13_Witness ==
    /\ last.op = "handle_question"
    /\ gpt_available(gpt)
    /\ \A api \in DOMAIN last.reply : last.reply[api] = None
    /\ ~last.ret.raised
    /\ last.ret.keyboard = "smart" /\ EndsWith(last.ret.text, SmartNote)

-----------------------------------------------------------------------------
(* Properties of the order of the recommendations *)

\* the score calculate_course_score gives the i-th course of the catalog
ScoreOf(i) ==
    calculate_course_score(get_all_courses(courses)[i], rec.user_interests,
                           rec.preferred_program).score

\* the ids of the courses of a list of recommendations
ItemIds(ret) == {ret.items[i].course_id : i \in 1..Len(ret.items)}

\* C14: the list recommend_courses returns is in non-increasing order of
\* score, courses of equal score are in the order of the catalog, and no
\* course left out that reaches min_score scores more than a returned one.
C14_SortedStableTopK ==
    (rec.op = "recommend_courses" /\ ~rec.ret.raised) =>
        /\ \A i, j \in 1..Len(rec.ret.items) :
               i < j => /\ rec.ret.items[i].score >= rec.ret.items[j].score
                        /\ rec.ret.items[i].score = rec.ret.items[j].score
                               => rec.ret.items[i].course_id < rec.ret.items[j].course_id
        /\ \A c \in Qualifying(courses, rec.user_interests, rec.preferred_program,
                                rec.min_score) \ ItemIds(rec.ret) :
               \A i \in 1..Len(rec.ret.items) : ScoreOf(c) <= rec.ret.items[i].score

\* two courses of the same positive score were returned in catalog order
C14_Witness ==
    /\ rec.op = "recommend_courses" /\ ~rec.ret.raised
    /\ rec.user_interests # <<>>
    /\ Len(rec.ret.items) = 2
    /\ rec.ret.items[1].score = rec.ret.items[2].score
    /\ rec.ret.items[1].score > 0
    /\ rec.ret.items[1].course_id < rec.ret.items[2].course_id

\* the courses of the catalog that belong to a program; all of them for None
CoursesOfProgram(preferred_program) ==
    {i \in 1..Len(courses) :
        preferred_program \in {None, get_all_courses(courses)[i].program_name}}

\* C15: get_general_recommendations returns at most top_k items of score 0.5;
\* with a preferred program they are courses of that program and only those,
\* as many as top_k allows; mandatory courses come first and within each
\* group the names ascend.
C15_GeneralByProgram ==
    (rec.op = "get_general_recommendations" /\ ~rec.ret.raised) =>
        /\ Len(rec.ret.items) <= rec.top_k
        /\ ItemScores(rec.ret) \subseteq {500}
        /\ ItemIds(rec.ret) \subseteq CoursesOfProgram(rec.preferred_program)
        /\ Len(rec.ret.items)
               = Min(rec.top_k, Cardinality(CoursesOfProgram(rec.preferred_program)))
        /\ \A i, j \in 1..Len(rec.ret.items) :
               i < j => ~general_before(rec.ret.items[j], rec.ret.items[i])

-----------------------------------------------------------------------------
(* Properties of the related questions *)

\* the similarities of the text of the last query to the rows of the index
\* it was asked of; no row without a matrix
LastSims ==
    IF procs[last.proc].question_vectors.kind # "matrix" THEN <<>>
    ELSE Similarities(procs[last.proc], last.text, nltk_ok).sims

\* the rows whose similarity is above a value, and the returned records
\* whose similarity is
RowsAbove(v) == {i \in 1..Len(LastSims) : LastSims[i] > v}
ReturnedAbove(v) == {k \in 1..Len(last.ret.related) : last.ret.related[k].similarity > v}

\* C16: get_related_questions returns at most top_k records, each a row of
\* the corpus with its similarity, each of similarity MIN_RELEVANCE_SCORE or
\* more, in non-increasing order of similarity; with top_k >= 1 a row of the
\* best similarity heads the list when it reaches the bound, and every row
\* that is more similar than a returned record is returned as well.
C16_RelatedTopK ==
    (last.op = "get_related_questions") =>
        LET related == last.ret.related
            p == procs[last.proc]
        IN /\ ~last.ret.raised
           /\ Len(related) <= last.top_k
           /\ \A k \in 1..Len(related) :
                  /\ related[k].similarity >= MIN_RELEVANCE_SCORE
                  /\ \E i \in 1..Len(LastSims) :
                         /\ LastSims[i] = related[k].similarity
                         /\ p.qa_pairs[i].question = related[k].question
                         /\ p.qa_pairs[i].answer = related[k].answer
                  /\ Cardinality(ReturnedAbove(related[k].similarity))
                         = Cardinality(RowsAbove(related[k].similarity))
           /\ \A i, j \in 1..Len(related) :
                  i < j => related[i].similarity >= related[j].similarity
           /\ Len(related)
                  = Min(last.top_k, Cardinality(RowsAbove(MIN_RELEVANCE_SCORE - 1)))
           /\ (last.top_k >= 1
               /\ BestSimilarity(p, last.text, nltk_ok) >= MIN_RELEVANCE_SCORE)
                  => related[1].similarity = BestSimilarity(p, last.text, nltk_ok)

\* two rows reached the bound with different similarities, top_k was 1, and
\* the more similar one was returned
C16_Witness ==
    /\ last.op = "get_related_questions" /\ last.top_k = 1
    /\ Cardinality(RowsAbove(MIN_RELEVANCE_SCORE - 1)) = 2
    /\ \E i, j \in 1..Len(LastSims) : LastSims[i] # LastSims[j]
    /\ Len(last.ret.related) = 1
    /\ last.ret.related[1].similarity
           = BestSimilarity(procs[last.proc], last.text, nltk_ok)

-----------------------------------------------------------------------------
(* Relations between calls *)

\* the rows of the index of the last query whose question is its text
RowsAsked ==
    {i \in 1..Len(procs[last.proc].qa_pairs) :
        procs[last.proc].qa_pairs[i].question = last.text}

\* C17: a query whose text is the question of a row of the corpus has a
\* similarity of SIMILARITY_THRESHOLD or more to that row, and get_answer
\* returns a stored answer as it is, with a confidence of at least the
\* threshold; also when the question consists of stop-words only.
C17_RoundTrip ==
    (last.op = "get_answer" /\ RowsAsked # {}) =>
        /\ \A i \in RowsAsked :
               i \in DOMAIN LastSims /\ LastSims[i] >= SIMILARITY_THRESHOLD
        /\ last.ret.confidence >= SIMILARITY_THRESHOLD
        /\ last.ret.answer
               \in {procs[last.proc].qa_pairs[k].answer :
                       k \in 1..Len(procs[last.proc].qa_pairs)}

\* a step that is a call of get_answer or get_related_questions
QueryStep == last'.op \in {"get_answer", "get_related_questions"}

\* C18: get_answer and get_related_questions leave qa_pairs, the fitted
\* vectorizer, question_vectors and the table as they were, and get_answer
\* called again with the same text in the state a query leaves returns the
\* result it returned: the results depend on the text and the corpus only,
\* whatever queries ran before.
C18_QueriesReadOnly ==
    [][QueryStep =>
          /\ procs' = procs
          /\ store' = store
          /\ nltk_ok' = nltk_ok
          /\ last'.op = "get_answer" =>
                 last'.ret = get_answer(procs'[last'.proc], last'.text, nltk_ok')]_vars

\* get_answer has answered from an index that is older than the table
C18_Witness ==
    /\ last.op = "get_answer"
    /\ last.ret.confidence >= SIMILARITY_THRESHOLD
    /\ Len(store) > Len(procs[last.proc].qa_pairs)

-----------------------------------------------------------------------------
(* The tables of the catalog *)

\* C19: after any inserts of programs and courses, also of a program whose
\* name is stored already, the program_id of every row of the courses table
\* is the id of a row of the programs table.
C19_CoursesReferToPrograms ==
    \A i \in 1..Len(courses) : courses[i].program_id \in ProgramIds(programs)

-----------------------------------------------------------------------------
(* The interests read from a text *)

\* the categories that have a keyword in the lowercased text
CategoriesIn(text) ==
    {InterestOrder[n] : n \in {j \in 1..Len(InterestOrder) :
        \E k \in 1..Len(interest_keywords[InterestOrder[j]]) :
            Contains(StrLower(text), interest_keywords[InterestOrder[j]][k])}}

\* C20: extract_interests_from_text returns one item for each category that
\* has a keyword occurring in the lowercased text and for no other category,
\* every weight is above 0 and at most 1, and None or the empty text give
\* the empty map.
C20_SparseInterests ==
    rec.op = "extract_interests_from_text" =>
        /\ rec.text \in {None, ""} => rec.ret = <<>>
        /\ rec.text \notin {None, ""} =>
               /\ {rec.ret[i].interest : i \in 1..Len(rec.ret)} = CategoriesIn(rec.text)
               /\ Cardinality(CategoriesIn(rec.text)) = Len(rec.ret)
        /\ \A i \in 1..Len(rec.ret) : rec.ret[i].weight > 0 /\ rec.ret[i].weight <= 1000

\* a text with keywords of two categories, one keyword of two words
C20_Witness ==
    /\ rec.op = "extract_interests_from_text"
    /\ Len(rec.ret) >= 2
    /\ \E i \in 1..Len(rec.ret) :
           interest_text_score(rec.ret[i].interest, StrLower(rec.text)) > 1000

-----------------------------------------------------------------------------
(* The normalizer *)

\* how often a token occurs in a preprocessed text
TokenCount(processed, token) ==
    Cardinality({i \in 1..Len(StrSplit(processed)) : StrSplit(processed)[i] = token})

\* two preprocessed texts hold the same tokens, whatever their order
SameTokens(a, b) ==
    \A t \in {StrSplit(a)[i] : i \in 1..Len(StrSplit(a))}
             \cup {StrSplit(b)[i] : i \in 1..Len(StrSplit(b))} :
        TokenCount(a, t) = TokenCount(b, t)

\* C21: _preprocess_text applied to its own result returns the tokens it was
\* given: a second pass drops no token and changes none.
C21_PreprocessIdempotent ==
    last.op = "get_answer" =>
        SameTokens(preprocess_text(preprocess_text(last.text, nltk_ok), nltk_ok),
                   preprocess_text(last.text, nltk_ok))

-----------------------------------------------------------------------------
(* The bonuses of calculate_course_score *)

\* the last call was calculate_course_score and it returned
Scored == rec.op = "calculate_course_score" /\ ~rec.ret.raised

\* base_score and reasons of the last call after the loop over the interests
ContentOf == score_interests(rec.course, rec.user_interests, rec.preferred_program)

\* a keyword in the name, a tag or a CV keyword matched for some interest
ContentHit == rec.user_interests # <<>> /\ ContentOf.reasons # <<>>

\* C22: the bonus of the preferred program is given only when
\* preferred_program is set, is the program of the course, and a keyword, a
\* tag or a CV keyword of some interest matched the course; a course without
\* such a match never gets it, mandatory or not.
C22_PreferredBonusNeedsContent ==
    (Scored /\ Contains(rec.ret.reason, "Kurs iz predpocitaemoy programmy")) =>
        /\ rec.preferred_program \notin {None, ""}
        /\ rec.course.program = rec.preferred_program
        /\ ContentHit

\* the tags of the course of the last call that match a possible tag of an
\* interest, by their position
TagsMatching(interest) ==
    {i \in 1..Len(rec.course.tags) :
        \E k \in 1..Len(possible_tags(interest)) :
            tag_matches(possible_tags(interest)[k], rec.course.tags[i])}

\* the only interest of the last call matched the course by its tags alone
OnlyTagsMatch ==
    /\ Scored
    /\ Len(rec.user_interests) = 1
    /\ rec.preferred_program = None
    /\ name_reasons(rec.user_interests[1].interest, StrLower(rec.course.name)) = <<>>
    /\ cv_reasons(rec.user_interests[1].interest, StrLower(rec.course.name)) = <<>>
    /\ TagsMatching(rec.user_interests[1].interest) # {}

\* C23: a tag of the course that matches a possible tag of an interest adds
\* 0.7 to the score of the interest once, however many possible tags it
\* matches: a course matched by the one tag 'Computer Vision' scores 0.7 for
\* computer_vision of weight 1.0 without a preferred program.
C23_TagCountsOnce ==
    OnlyTagsMatch =>
        rec.ret.score
            = contribution(700 * Cardinality(TagsMatching(rec.user_interests[1].interest)),
                           rec.user_interests[1].weight, 1000)

\* the last call scored a course for interests that are not empty
ScoredInterests == Scored /\ rec.user_interests # <<>>

\* the preferred program of the last call is set and is that of the course
OfPreferredProgram ==
    rec.preferred_program \notin {None, ""} /\ rec.course.program = rec.preferred_program

-----------------------------------------------------------------------------
(* Rows of equal similarity *)

\* the rows of the index of the last query that a returned record shows
RowsOf(record) ==
    {i \in 1..Len(procs[last.proc].qa_pairs) :
        /\ procs[last.proc].qa_pairs[i].question = record.question
        /\ procs[last.proc].qa_pairs[i].answer = record.answer}

\* C25: among rows of the same similarity to the query the row stored
\* earlier comes first: get_answer matches the first row of the best
\* similarity, and get_related_questions lists records of equal similarity
\* in the order of their rows.
C25_TiesInInsertionOrder ==
    /\ (last.op = "get_answer" /\ last.ret.confidence > 0) =>
           \E i \in 1..Len(LastSims) :
               /\ procs[last.proc].qa_pairs[i].question = last.ret.matched_question
               /\ \A j \in 1..(i - 1) : LastSims[j] < LastSims[i]
    /\ last.op = "get_related_questions" =>
           \A k, l \in 1..Len(last.ret.related) :
               (/\ k < l
                /\ last.ret.related[k].similarity = last.ret.related[l].similarity
                /\ last.ret.related[k] # last.ret.related[l]) =>
                   \E i \in RowsOf(last.ret.related[k]), j \in RowsOf(last.ret.related[l]) :
                       i < j

-----------------------------------------------------------------------------
(* The order of the answer providers *)

\* handle_question has answered the last question
Answered == last.op = "handle_question" /\ ~last.ret.raised

\* the external GPT has an answer to the last question
GptSucceeds == gpt_available(gpt) /\ Truthy(try_free_apis(gpt.keys, last.reply))

\* the local smart system has an answer to the last question
SmartSucceeds ==
    takes_smart(SmartQA_generate_smart_answer(procs["smart"], get_all_courses(courses),
                                              last.question, nltk_ok))

\* C26: the answer to a free-text question is that of the first provider
\* that has one, in the order external GPT, local smart system, basic
\* matcher: the answer of the GPT whenever it has one (the reply of the first
\* API that returned a text), that of the smart system only when the GPT has
\* none, that of the basic matcher only when neither has one.
C26_FallbackOrder ==
    Answered =>
        /\ GptSucceeds =>
               last.ret = Response(try_free_apis(gpt.keys, last.reply) \o GptNote, "gpt")
        /\ EndsWith(last.ret.text, SmartNote) => ~GptSucceeds
        /\ (~EndsWith(last.ret.text, GptNote) /\ ~EndsWith(last.ret.text, SmartNote)) =>
               (~GptSucceeds /\ ~SmartSucceeds)

-----------------------------------------------------------------------------
(* The confidence of an answer *)

\* C27: the confidence of every result of get_answer is 0 or at least
\* MIN_RELEVANCE_SCORE, never between the two, and matched_question is None
\* exactly when the confidence is 0.
C27_ConfidenceZeroOrRelevant ==
    (last.op = "get_answer" /\ ~last.ret.raised) =>
        /\ last.ret.confidence = 0 \/ last.ret.confidence >= MIN_RELEVANCE_SCORE
        /\ last.ret.matched_question = None <=> last.ret.confidence = 0

\* the best row is similar to the query, but less than MIN_RELEVANCE_SCORE
C27_Witness ==
    /\ last.op = "get_answer"
    /\ \E i \in 1..Len(LastSims) : LastSims[i] > 0
    /\ \A i \in 1..Len(LastSims) : LastSims[i] < MIN_RELEVANCE_SCORE
    /\ last.ret.confidence = 0
    /\ last.ret.matched_question = None

-----------------------------------------------------------------------------
(* The weights of the interests *)

\* C28: every weight extract_interests_from_text returns is 1.0, for a
\* category matched by one keyword of one word as for a category matched by
\* longer phrases.
C28_WeightsAreOne ==
    rec.op = "extract_interests_from_text" =>
        \A i \in 1..Len(rec.ret) : rec.ret[i].weight = 1000

\* one category matched by a single word, another by a phrase of two words
C28_Witness ==
    /\ rec.op = "extract_interests_from_text"
    /\ \E i, j \in 1..Len(rec.ret) :
           /\ interest_text_score(rec.ret[i].interest, StrLower(rec.text)) = 1000
           /\ interest_text_score(rec.ret[j].interest, StrLower(rec.text)) > 1000
           /\ rec.ret[i].weight = rec.ret[j].weight

-----------------------------------------------------------------------------
(* The profile of a user under the texts they send *)

\* the dialogue states handle_state_message answers with handle_profile_input
ProfileStates == {"setup_profile_for_recommendations", "update_profile"}

\* the step is a message of user u that handle_profile_input analyses
ProfileInputOf(u) ==
    /\ last'.op = "process_message"
    /\ last'.user_id = u
    /\ user_states[u] \in ProfileStates
    /\ ~StartsWith(StrStrip(last'.message), "/")
    /\ StrStrip(last'.message) \notin DOMAIN quick_questions
    /\ StrStrip(last'.message) \notin {CancelMessage, BackMessage}

\* the rows save_recommendations adds in a step for interests and a program
SavedFor(u, interests, preferred_program) ==
    \E recs \in {recommend_courses(courses,
                                    [i \in 1..Len(interests) |->
                                        [interest |-> interests[i], weight |-> 1000]],
                                    preferred_program, 5, DEFAULT_MIN_SCORE)} :
        saved' = IF recs.raised THEN saved
                 ELSE save_recommendations(saved, users', u, recs.items)

\* what C29 says of a step of user u with the row before and the row after
ProfileKept(u, before, after, text) ==
    /\ after # <<>>
    /\ after[1].id = before[1].id
    /\ Len(users'.rows) = Len(users.rows)
    /\ extract_interests_from_text(text) = <<>> =>
           /\ after[1].interests = before[1].interests
           /\ SavedFor(u, before[1].interests, after[1].preferred_program)
    /\ profile_program(StrLower(text)) = None =>
           /\ after[1].preferred_program = before[1].preferred_program
           /\ SavedFor(u, after[1].interests, before[1].preferred_program)

\* C29: a text handle_profile_input analyses that yields no interests leaves
\* the stored interests as they were, one that names no program leaves the
\* stored preferred_program as it was, the recommendations of the same call
\* are those of the values kept, and the row of the user stays in the table.
C29_EmptyFieldsKept ==
    [][\A u \in TelegramIds :
          ProfileInputOf(u) =>
              \E before \in {get_user_by_telegram_id(users, u)} :
              \E after \in {get_user_by_telegram_id(users', u)} :
                  before # <<>> /\ ProfileKept(u, before, after, StrStrip(last'.message))]_vars

\* a user whose interests are stored updates the profile with a text that
\* names neither an interest nor a program, and is recommended the course of
\* the interests stored before
C29_Witness ==
    /\ last.op = "process_message"
    /\ last.state \in ProfileStates
    /\ last.message = "privet"
    /\ extract_interests_from_text(last.message) = <<>>
    /\ profile_program(StrLower(last.message)) = None
    /\ \E user \in {get_user_by_telegram_id(users, last.user_id)} :
           /\ user # <<>>
           /\ user[1].interests = <<"python">>
           /\ user[1].background = analyze_user_background(last.message)
    /\ Contains(last.ret.text, "Interesy: Ne opredeleny")
    /\ Contains(last.ret.text, "Personaljnye rekomendacii kursov")
    /\ Contains(last.ret.text, "Praktikum")
    /\ Len(saved) = 2

-----------------------------------------------------------------------------
(* Commands and buttons during a dialogue *)

\* the two dialogues that end only when the user leaves them
ModeStates == {"gpt_mode", "smart_mode"}

\* the messages that lead to handle_start or handle_help
MenuMessages == {"/start", "/help", "<- Glavnoe menu"}

\* message.strip() is a command or a quick question
IsCommandOrButton(message) ==
    StartsWith(message, "/") \/ message \in DOMAIN quick_questions

\* what C30 says of a step: state is user_states[user] before the message
\* and state_after after it
CommandsKeepState(message, state, state_after, response) ==
    /\ IsCommandOrButton(message) /\ state # None => state_after # None
    /\ message \in MenuMessages =>
           /\ state_after = state
           /\ response.text \in {"handle_start", "handle_help"}
    /\ state \in ModeStates /\ state_after # state =>
           \/ /\ message \in {CancelMessage, BackMessage}
              /\ state_after = None
           \/ /\ IsCommandOrButton(message)
              /\ state_after # None

\* C30: process_message answers a command or a quick question without
\* consulting the dialogue of the user and leaves user_states[user] as it was
\* or sets another state; a user in gpt_mode or smart_mode stays there after
\* /start, /help and the button of the main menu, and leaves the mode only by
\* a cancel or back message or by a command or button that starts another
\* dialogue.
C30_CommandsKeepState ==
    [][\A u \in TelegramIds :
          last'.op = "process_message" /\ last'.user_id = u =>
              CommandsKeepState(StrStrip(last'.message), user_states[u], user_states'[u],
                                last'.ret)]_vars

\* /start of a user in smart_mode is answered by handle_start and the user is
\* still in smart_mode
C30_Witness ==
    /\ last.op = "process_message"
    /\ last.message = "/start"
    /\ last.state = "smart_mode"
    /\ last.ret.text = "handle_start"
    /\ user_states[last.user_id] = "smart_mode"

====
